---- MODULE Spec2Model ----
(***************************************************************************)
(* Priority-zone scoring (computePriorityZones, PriorityZonesLayer) and    *)
(* the nearest-waterway map (MaintenanceLayer) of the SSPR GIS app.        *)
(*                                                                         *)
(* Numbers.  JavaScript numbers are modelled as exact rationals            *)
(* [num, den] in lowest terms.  Coordinates are integers counting          *)
(* 1/GridUnits of one grid edge (gridSizeMeters / 111320 degrees), in a    *)
(* neighbourhood of (0, 0) where the haversine distance between two points *)
(* is the planar distance of their coordinate differences.                 *)
(***************************************************************************)
EXTENDS Integers, Sequences, FiniteSets, TLC

\* ------------------------------------------------------------------ bounds
\* Coordinate resolution: units per grid edge.
GridUnits == 4
\* Longest issue list drawn freely from Features.
MaxIssues == 2
\* Most issues of one generated cluster (one grid cell).
MaxCluster == 9
\* Most distinct categories of one generated cluster.
MaxCategories == 5
\* Longest waterway list drawn freely from LocatorWaterways.
MaxWaterways == 2
\* Most presses of the weight control's sliders and buttons that are followed.
MaxPresses == 2
\* Most presses that are followed while the sliders are only moved to 0; four
\* of them bring every weight to 0.
MaxZeroed == 4

\* ------------------------------------------------------- program constants
gridSizeMeters == 200
\* The radius of the sphere of distanceMeters, in metres
EarthRadiusMeters == 6371000
NEAR_WATER_METERS == 150
DENSITY_CAP == 8
RECURRENCE_CAP == 4

\* --------------------------------------------------------------- rationals
RECURSIVE GCD(_, _)
GCD(a, b) == IF b = 0 THEN a ELSE GCD(b, a % b)

Abs(x) == IF x < 0 THEN -x ELSE x

\* NaN is the ratio 0/0; the arithmetic below carries it through sums,
\* products and quotients, and every comparison with it is false.
NaN == [num |-> 0, den |-> 0]
IsNaN(x) == x.den = 0

Rat(n, d) ==
    IF d = 0 THEN NaN
    ELSE LET g == GCD(Abs(n), Abs(d))
             s == IF d < 0 THEN -1 ELSE 1
         IN  [num |-> (s * n) \div g, den |-> (s * d) \div g]

Zero == Rat(0, 1)
One == Rat(1, 1)

RatAdd(a, b) == Rat(a.num * b.den + b.num * a.den, a.den * b.den)
RatMul(a, b) == Rat(a.num * b.num, a.den * b.den)
RatDiv(a, b) == Rat(a.num * b.den, a.den * b.num)
RatLess(a, b) == a.num * b.den < b.num * a.den
RatLeq(a, b) == ~IsNaN(a) /\ ~IsNaN(b) /\ a.num * b.den <= b.num * a.den
\* Math.min(a, b)
RatMin(a, b) ==
    IF IsNaN(a) \/ IsNaN(b) THEN NaN ELSE IF RatLess(b, a) THEN b ELSE a
\* Math.max(a, b)
RatMax(a, b) ==
    IF IsNaN(a) \/ IsNaN(b) THEN NaN ELSE IF RatLess(a, b) THEN b ELSE a

\* floor(sqrt(n)) for n >= 0
RECURSIVE IsqrtFrom(_, _, _)
IsqrtFrom(n, lo, hi) ==
    IF lo >= hi THEN lo
    ELSE LET mid == (lo + hi + 1) \div 2
         IN  IF mid * mid <= n THEN IsqrtFrom(n, mid, hi)
                               ELSE IsqrtFrom(n, lo, mid - 1)
Isqrt(n) == IsqrtFrom(n, 0, 46340)

\* ------------------------------------------------------------- geometry
\* Length of one coordinate unit in metres: one grid edge is
\* gridSizeMeters / 111320 degrees, one degree is 6371000 * pi / 180 =
\* 111194.93 m on the sphere distanceMeters uses.
GridEdgeM == (gridSizeMeters * 111195) \div 111320
UnitM == GridEdgeM \div GridUnits
\* The same unit in feet (turf's units: "feet", 3.28084 ft per metre).
UnitFt == (GridEdgeM * 3281) \div (1000 * GridUnits)

\* Haversine distance in metres, rounded down to a whole metre (a
\* comparison d < m with a whole m is unchanged by the rounding).
distanceMeters(lat1, lng1, lat2, lng2) ==
    Isqrt(((lat2 - lat1) * (lat2 - lat1) + (lng2 - lng1) * (lng2 - lng1))
          * UnitM * UnitM)

\* Does some vertex of the line lie within `meters` of the point?
RECURSIVE VertexNear(_, _, _, _, _)
VertexNear(lat, lng, line, i, meters) ==
    IF i > Len(line) THEN FALSE
    ELSE IF distanceMeters(lat, lng, line[i][1], line[i][2]) < meters THEN TRUE
    ELSE VertexNear(lat, lng, line, i + 1, meters)

RECURSIVE LinesNear(_, _, _, _, _)
LinesNear(lat, lng, lines, j, meters) ==
    IF j > Len(lines) THEN FALSE
    ELSE IF VertexNear(lat, lng, lines[j], 1, meters) THEN TRUE
    ELSE LinesNear(lat, lng, lines, j + 1, meters)

\* nearWaterway: "true", "false", or "throw" (feat.geometry.type read on a
\* feature whose geometry is null raises a TypeError).
RECURSIVE NearWaterwayFrom(_, _, _, _, _)
NearWaterwayFrom(lat, lng, waterways, k, meters) ==
    IF k > Len(waterways) THEN "false"
    ELSE LET feat == waterways[k] IN
         IF feat.gtype = "null" THEN "throw"
         ELSE IF feat.gtype = "LineString"
                 /\ VertexNear(lat, lng, feat.lines[1], 1, meters) THEN "true"
         ELSE IF feat.gtype = "MultiLineString"
                 /\ LinesNear(lat, lng, feat.lines, 1, meters) THEN "true"
         ELSE NearWaterwayFrom(lat, lng, waterways, k + 1, meters)

nearWaterway(lat, lng, waterways, meters) ==
    NearWaterwayFrom(lat, lng, waterways, 1, meters)

\* ---------------------------------------------------------------- scoring
DEFAULT_PRIORITY_WEIGHTS ==
    [issueDensity |-> 35, waterProximity |-> 25,
     severityFactor |-> 25, recurrence |-> 15]

\* A weight is held in hundredths; its value is w / 100.
\* Mutant: a weight is clamped to [0, 1] before it is used.
Weight_Clamped(w) == Rat(IF w < 0 THEN 0 ELSE IF w > 100 THEN 100 ELSE w, 100)

Weight(w) == Rat(w, 100)

WeightKeys == {"issueDensity", "waterProximity", "severityFactor", "recurrence"}

\* The members every object literal inherits from Object.prototype.
InheritedKeys ==
    {"constructor", "toString", "valueOf", "hasOwnProperty", "__proto__"}

\* sum + (SEVERITY_SCORES[severity] || 0.4): the look-up of an inherited key
\* finds a function or an object, which is truthy, so 0.4 is not taken; the
\* sum becomes a string and the mean NaN.
SEVERITY_SCORES(severity) ==
    CASE severity \in InheritedKeys -> NaN
      [] severity = "critical" -> Rat(1, 1)
      [] severity = "high" -> Rat(75, 100)
      [] severity = "medium" -> Rat(40, 100)
      [] severity = "low" -> Rat(15, 100)
      [] OTHER -> Rat(40, 100)

\* A falsy (absent or empty) property takes the default.
OrDefault(v, d) == IF v = "" THEN d ELSE v

\* Mutant: the geometry-type filter is left out.
RECURSIVE ExtractIssues_AnyGeometry(_, _)
ExtractIssues_AnyGeometry(features, i) ==
    IF i > Len(features) THEN <<>>
    ELSE <<[lat |-> features[i].lat, lng |-> features[i].lng,
            severity |-> OrDefault(features[i].severity, "medium"),
            category |-> OrDefault(features[i].category, "unknown")]>>
         \o ExtractIssues_AnyGeometry(features, i + 1)

\* issueData.features.filter(Point).map(...)
RECURSIVE ExtractIssues(_, _)
ExtractIssues(features, i) ==
    IF i > Len(features) THEN <<>>
    ELSE LET f == features[i]
             rest == ExtractIssues(features, i + 1)
         IN  IF f.gtype = "Point"
             THEN <<[lat |-> f.lat, lng |-> f.lng,
                     severity |-> OrDefault(f.severity, "medium"),
                     category |-> OrDefault(f.category, "unknown")]>> \o rest
             ELSE rest

\* Math.round(x / gridDeg), x in units: floor(x / GridUnits + 1/2)
\* Mutant: the cell index is the floor, not the nearest integer.
RoundToCell_Floor(x) == x \div GridUnits

RoundToCell(x) == (2 * x + GridUnits) \div (2 * GridUnits)

\* (idx * gridDeg).toFixed(5), as the count of 1e-5 degrees printed
ToFixed5(idx) ==
    LET mag == (2 * Abs(idx) * gridSizeMeters * 100000 + 111320) \div (2 * 111320)
    IN  IF idx < 0 THEN -mag ELSE mag

CellKey(issue) ==
    <<ToFixed5(RoundToCell(issue.lat)), ToFixed5(RoundToCell(issue.lng))>>

\* Mutant: an issue that falls in an existing cell replaces the cell's issues.
AddToCell_Replacing(cellMap, issue) ==
    LET key == CellKey(issue)
        hit == {j \in 1..Len(cellMap) : cellMap[j].key = key}
    IN  IF hit = {}
        THEN Append(cellMap, [key |-> key,
                              lat |-> RoundToCell(issue.lat) * GridUnits,
                              lng |-> RoundToCell(issue.lng) * GridUnits,
                              issues |-> <<issue>>])
        ELSE LET j == CHOOSE j \in hit : TRUE
             IN  [cellMap EXCEPT ![j].issues = <<issue>>]

\* One iteration of the grouping loop; the Map keeps insertion order.
AddToCell(cellMap, issue) ==
    LET key == CellKey(issue)
        hit == {j \in 1..Len(cellMap) : cellMap[j].key = key}
    IN  IF hit = {}
        THEN Append(cellMap, [key |-> key,
                              lat |-> RoundToCell(issue.lat) * GridUnits,
                              lng |-> RoundToCell(issue.lng) * GridUnits,
                              issues |-> <<issue>>])
        ELSE LET j == CHOOSE j \in hit : TRUE
             IN  [cellMap EXCEPT ![j].issues = Append(@, issue)]

RECURSIVE BuildCellMap(_, _, _)
BuildCellMap(issues, i, cellMap) ==
    IF i > Len(issues) THEN cellMap
    ELSE BuildCellMap(issues, i + 1, AddToCell(cellMap, issues[i]))

RECURSIVE SeveritySum(_, _)
SeveritySum(issues, i) ==
    IF i > Len(issues) THEN Zero
    ELSE RatAdd(SEVERITY_SCORES(issues[i].severity), SeveritySum(issues, i + 1))

\* [...new Set(cell.issues.map(i => i.category))]: first occurrences, in order
RECURSIVE UniqueCategories(_, _, _)
UniqueCategories(issues, i, acc) ==
    IF i > Len(issues) THEN acc
    ELSE IF \E j \in 1..Len(acc) : acc[j] = issues[i].category
         THEN UniqueCategories(issues, i + 1, acc)
         ELSE UniqueCategories(issues, i + 1, Append(acc, issues[i].category))

\* Mutant: the density score is not capped at 1.
DensityScore_Uncapped(cell) == Rat(Len(cell.issues), DENSITY_CAP)

DensityScore(cell) == RatMin(Rat(Len(cell.issues), DENSITY_CAP), One)

\* Mutant: recurrence counts the issues, not their distinct categories.
RecurrenceScore_ByIssueCount(cell) ==
    RatMin(Rat(Len(cell.issues), RECURRENCE_CAP), One)

RecurrenceScore(cell) ==
    RatMin(Rat(Len(UniqueCategories(cell.issues, 1, <<>>)), RECURRENCE_CAP), One)

AvgSeverity(cell) ==
    RatDiv(SeveritySum(cell.issues, 1), Rat(Len(cell.issues), 1))

RawScore(cell, isNearWater, w) ==
    RatAdd(RatAdd(RatAdd(
        RatMul(DensityScore(cell), Weight(w.issueDensity)),
        RatMul(IF isNearWater THEN One ELSE Zero, Weight(w.waterProximity))),
        RatMul(AvgSeverity(cell), Weight(w.severityFactor))),
        RatMul(RecurrenceScore(cell), Weight(w.recurrence)))

\* The zone pushed for one cell (score is still the raw score).
ScoreCell(cell, isNearWater, w) ==
    [lat |-> cell.lat, lng |-> cell.lng,
     score |-> RawScore(cell, isNearWater, w),
     issueCount |-> Len(cell.issues),
     criticalCount |-> Cardinality({i \in 1..Len(cell.issues) :
                          cell.issues[i].severity \in {"critical", "high"}}),
     nearWater |-> isNearWater,
     categories |-> UniqueCategories(cell.issues, 1, <<>>),
     label |-> ""]

\* The scoring loop over the cells, from cell c on: [threw, zones, maxRawScore].
RECURSIVE ScoreCells(_, _, _, _, _)
ScoreCells(cellMap, c, waterwayData, w, acc) ==
    IF c > Len(cellMap) THEN acc
    ELSE LET cell == cellMap[c]
             near == nearWaterway(cell.lat, cell.lng, waterwayData, NEAR_WATER_METERS)
         IN  IF near = "throw"
             THEN [acc EXCEPT !.threw = TRUE]
             ELSE LET z == ScoreCell(cell, near = "true", w)
                  IN  ScoreCells(cellMap, c + 1, waterwayData, w,
                          [threw |-> FALSE,
                           zones |-> Append(acc.zones, z),
                           maxRawScore |-> RatMax(acc.maxRawScore, z.score)])

Tenths(n) == Rat(n, 10)

\* Mutant: the thresholds are inclusive.
LabelOf_Inclusive(score, maxRawScore) ==
    LET d == IF maxRawScore = Zero \/ IsNaN(maxRawScore) THEN One ELSE maxRawScore
        s == RatDiv(score, d)
    IN  IF RatLeq(Tenths(7), s) THEN "Critical Priority"
        ELSE IF RatLeq(Tenths(4), s) THEN "High Priority"
        ELSE IF RatLeq(Tenths(2), s) THEN "Moderate Priority"
        ELSE "Low Priority"

\* Mutant: the label is taken from the raw score, not divided by the maximum.
LabelOf_FromRawScore(score, maxRawScore) ==
    IF RatLess(Tenths(7), score) THEN "Critical Priority"
    ELSE IF RatLess(Tenths(4), score) THEN "High Priority"
    ELSE IF RatLess(Tenths(2), score) THEN "Moderate Priority"
    ELSE "Low Priority"

\* The label expression: z.score / (maxRawScore || 1) against the thresholds.
LabelOf(score, maxRawScore) ==
    LET d == IF maxRawScore = Zero \/ IsNaN(maxRawScore) THEN One ELSE maxRawScore
        s == RatDiv(score, d)
    IN  IF RatLess(Tenths(7), s) THEN "Critical Priority"
        ELSE IF RatLess(Tenths(4), s) THEN "High Priority"
        ELSE IF RatLess(Tenths(2), s) THEN "Moderate Priority"
        ELSE "Low Priority"

\* Mutant: the raw score is returned without normalisation.
NormalizedScore_Unscaled(score, maxRawScore) == score

\* Mutant: a zero batch maximum normalises every score to 1.
NormalizedScore_OneOnZeroMax(score, maxRawScore) ==
    IF RatLess(Zero, maxRawScore) THEN RatDiv(score, maxRawScore) ELSE One

\* The score expression: maxRawScore > 0 ? z.score / maxRawScore : 0
NormalizedScore(score, maxRawScore) ==
    IF RatLess(Zero, maxRawScore) THEN RatDiv(score, maxRawScore) ELSE Zero

NormalizeZone(z, maxRawScore) ==
    [z EXCEPT !.score = NormalizedScore(z.score, maxRawScore),
              !.label = LabelOf(z.score, maxRawScore)]

NormalizeAll(zs, maxRawScore) ==
    [i \in 1..Len(zs) |-> NormalizeZone(zs[i], maxRawScore)]

\* The colour a zone is drawn in, from its normalized score.
scoreColor(score) ==
    IF RatLess(Tenths(7), score) THEN "#ef4444"
    ELSE IF RatLess(Tenths(4), score) THEN "#f97316"
    ELSE IF RatLess(Tenths(2), score) THEN "#eab308"
    ELSE "#22c55e"

\* Mutant: the visibility threshold is 0.
Visible_AboveZero(z) == RatLess(Zero, z.score)

\* .filter((z) => z.score > 0.1)
Visible(z) == RatLess(Tenths(1), z.score)

\* Mutant: the visibility filter is left out.
FilterVisible_KeepAll(zs, i) == zs

RECURSIVE FilterVisible(_, _)
FilterVisible(zs, i) ==
    IF i > Len(zs) THEN <<>>
    ELSE IF Visible(zs[i]) THEN <<zs[i]>> \o FilterVisible(zs, i + 1)
    ELSE FilterVisible(zs, i + 1)

\* Mutant: a zone is placed before the zones of equal score (an unstable sort).
InsertSorted_BeforeEquals(sorted, z) ==
    LET before == {j \in 1..Len(sorted) : RatLess(z.score, sorted[j].score)}
        k == Cardinality(before)
    IN  SubSeq(sorted, 1, k) \o <<z>> \o SubSeq(sorted, k + 1, Len(sorted))

\* .sort((a, b) => b.score - a.score): stable, descending by score
InsertSorted(sorted, z) ==
    LET before == {j \in 1..Len(sorted) : RatLeq(z.score, sorted[j].score)}
        k == Cardinality(before)
    IN  SubSeq(sorted, 1, k) \o <<z>> \o SubSeq(sorted, k + 1, Len(sorted))

\* Mutant: the final sort is left out.
SortByScore_Unsorted(zs, i, sorted) == zs

RECURSIVE SortByScore(_, _, _)
SortByScore(zs, i, sorted) ==
    IF i > Len(zs) THEN sorted
    ELSE SortByScore(zs, i + 1, InsertSorted(sorted, zs[i]))

\* The whole function; besides the returned list it reports the locals the
\* properties speak about: the cell map, the scored zones before
\* normalisation, the batch maximum and the normalised zones before the filter.
computePriorityZones(issues_, waterways_, w) ==
    LET issues == ExtractIssues(issues_, 1)
        empty == [threw |-> FALSE, cellMap |-> <<>>, rawZones |-> <<>>,
                  maxRawScore |-> Zero, normalized |-> <<>>, result |-> <<>>]
    IN  IF Len(issues) = 0 THEN empty
        ELSE LET cellMap == BuildCellMap(issues, 1, <<>>)
                 scored == ScoreCells(cellMap, 1, waterways_, w,
                              [threw |-> FALSE, zones |-> <<>>, maxRawScore |-> Zero])
             IN  IF scored.threw
                 THEN [empty EXCEPT !.threw = TRUE, !.cellMap = cellMap]
                 ELSE LET normalized == NormalizeAll(scored.zones, scored.maxRawScore)
                      IN  [threw |-> FALSE, cellMap |-> cellMap,
                           rawZones |-> scored.zones,
                           maxRawScore |-> scored.maxRawScore,
                           normalized |-> normalized,
                           result |-> SortByScore(FilterVisible(normalized, 1), 1, <<>>)]

\* ------------------------------------------------- IEEE 754 binary64 numbers
\* JavaScript numbers are IEEE 754 doubles.  A natural number of any size is
\* a sequence of limbs in base LimbBase, the least significant first, without
\* leading zero limbs; a finite non-negative double is m * 2^e with m an odd
\* natural number of at most 53 bits, or 0.
LimbBits == 15
LimbBase == 32768
SignificandBits == 53

\* a without its leading zero limbs
BigNorm(a) ==
    IF \A i \in 1..Len(a) : a[i] = 0 THEN <<>>
    ELSE SubSeq(a, 1, CHOOSE i \in 1..Len(a) :
                          a[i] # 0 /\ \A j \in (i + 1)..Len(a) : a[j] = 0)

\* n < 2^31 in limbs
BigFromInt(n) ==
    BigNorm(<<n % LimbBase, (n \div LimbBase) % LimbBase,
              n \div (LimbBase * LimbBase)>>)

Limb(a, i) == IF 1 <= i /\ i <= Len(a) THEN a[i] ELSE 0

\* -1, 0 or 1 as a < b, a = b or a > b
BigCmp(a, b) ==
    IF Len(a) < Len(b) THEN -1
    ELSE IF Len(a) > Len(b) THEN 1
    ELSE LET diff == {i \in 1..Len(a) : a[i] # b[i]}
         IN  IF diff = {} THEN 0
             ELSE LET top == CHOOSE i \in diff : \A j \in diff : j <= i
                  IN  IF a[top] < b[top] THEN -1 ELSE 1

\* The carry into limb i of a + b: some limb below overflows, and every
\* limb between that one and i is full.
AddCarry(a, b, i) ==
    IF \E j \in 1..(i - 1) :
           /\ Limb(a, j) + Limb(b, j) >= LimbBase
           /\ \A k \in (j + 1)..(i - 1) : Limb(a, k) + Limb(b, k) = LimbBase - 1
    THEN 1 ELSE 0

BigAdd(a, b) ==
    IF Len(a) = 0 THEN b
    ELSE IF Len(b) = 0 THEN a
    ELSE BigNorm([i \in 1..((IF Len(a) > Len(b) THEN Len(a) ELSE Len(b)) + 1) |->
                (Limb(a, i) + Limb(b, i) + AddCarry(a, b, i)) % LimbBase])

\* The borrow from limb i of a - b
SubBorrow(a, b, i) ==
    IF \E j \in 1..(i - 1) :
           /\ Limb(a, j) < Limb(b, j)
           /\ \A k \in (j + 1)..(i - 1) : Limb(a, k) = Limb(b, k)
    THEN 1 ELSE 0

\* a - b for a >= b
BigSub(a, b) ==
    IF Len(a) = 0 \/ Len(b) = 0 THEN a
    ELSE BigNorm([i \in 1..Len(a) |->
                (a[i] - Limb(b, i) - SubBorrow(a, b, i) + LimbBase) % LimbBase])

\* a * k for 0 <= k < LimbBase: the low halves of the products of the limbs,
\* plus their high halves one limb up
BigMulSmall(a, k) ==
    IF Len(a) = 0 \/ k = 0 THEN <<>>
    ELSE IF k = 1 THEN a
    ELSE BigAdd(BigNorm([i \in 1..Len(a) |-> (a[i] * k) % LimbBase]),
                BigNorm([i \in 1..(Len(a) + 1) |->
                            IF i = 1 THEN 0 ELSE (a[i - 1] * k) \div LimbBase]))

\* a * LimbBase^n
ShiftLimbs(a, n) == IF Len(a) = 0 \/ n = 0 THEN a ELSE [i \in 1..n |-> 0] \o a

\* The sum of the partial products of a and the limbs of b from limb i on
RECURSIVE BigMulFrom(_, _, _)
BigMulFrom(a, b, i) ==
    IF i > Len(b) THEN <<>>
    ELSE BigAdd(ShiftLimbs(BigMulSmall(a, b[i]), i - 1), BigMulFrom(a, b, i + 1))

BigMul(a, b) == BigMulFrom(a, b, 1)

\* a * 2^n: limb i of the result is made of the bits of limbs
\* i - n \div LimbBits and the one below
BigShl(a, n) ==
    IF Len(a) = 0 \/ n = 0 THEN a
    ELSE LET limbs == n \div LimbBits
             bits == n % LimbBits
         IN  BigNorm([i \in 1..(Len(a) + limbs + 1) |->
                         ((Limb(a, i - limbs) * (2 ^ bits)) % LimbBase)
                         + (Limb(a, i - limbs - 1) \div (2 ^ (LimbBits - bits)))])

\* floor(a / 2^n): limb i of the result is made of the bits of limbs
\* i + n \div LimbBits and the next
BigShr(a, n) ==
    IF Len(a) = 0 \/ n = 0 THEN a
    ELSE LET limbs == n \div LimbBits
             bits == n % LimbBits
         IN  BigNorm([i \in 1..(IF Len(a) > limbs THEN Len(a) - limbs ELSE 0) |->
                         (Limb(a, i + limbs) \div (2 ^ bits))
                         + (Limb(a, i + limbs + 1) % (2 ^ bits))
                           * (2 ^ (LimbBits - bits))])

\* The number of bits of a limb
LimbBitLen(n) ==
    CHOOSE k \in 0..LimbBits : n < 2 ^ k /\ (k = 0 \/ n >= 2 ^ (k - 1))

BigBitLen(a) ==
    IF Len(a) = 0 THEN 0 ELSE LimbBits * (Len(a) - 1) + LimbBitLen(a[Len(a)])

BigBit(a, i) == (Limb(a, i \div LimbBits + 1) \div (2 ^ (i % LimbBits))) % 2

\* The digit q with d * q <= r < d * (q + 1), for r < d * LimbBase and d
\* with its top limb at least LimbBase / 2: the estimate from the top limbs
\* of r and d is q, q + 1 or q + 2.
BigDivDigit(r, d) ==
    LET top == (Limb(r, Len(d) + 1) * LimbBase + Limb(r, Len(d))) \div d[Len(d)]
        est == IF top > LimbBase - 1 THEN LimbBase - 1 ELSE top
    IN  CHOOSE q \in {x \in {est - 2, est - 1, est} : x >= 0} :
            /\ BigCmp(BigMulSmall(d, q), r) <= 0
            /\ q = est \/ BigCmp(BigMulSmall(d, q + 1), r) > 0

BigDivStepOf(r, q, d, digit) ==
    [quot |-> <<digit>> \o q, rem |-> BigSub(r, BigMulSmall(d, digit))]

\* One step of long division: from p, the quotient and remainder of n by d,
\* those of n * LimbBase + limb by d.
BigDivStep(p, limb, d) ==
    BigDivStepOf(BigNorm(<<limb>> \o p.rem), p.quot, d,
                 BigDivDigit(BigNorm(<<limb>> \o p.rem), d))

\* Long division from limb i of n down: p holds the quotient and remainder
\* of the limbs above i.
RECURSIVE BigDivModFrom(_, _, _, _)
BigDivModFrom(n, d, i, p) ==
    IF i = 0 \/ Len(p.quot) < 0 THEN p
    ELSE BigDivModFrom(n, d, i - 1, BigDivStep(p, n[i], d))

\* The quotient of n by d and whether the division leaves a remainder, both
\* shifted until the top limb of d is at least LimbBase / 2.
BigDivModOf(n, d) ==
    BigDivModFrom(n, d, Len(n), [quot |-> <<>>, rem |-> <<>>])

BigDivModIn(p) == [quot |-> BigNorm(p.quot), exact |-> Len(p.rem) = 0]

BigDivMod(n, d) ==
    IF Len(n) = 0 THEN [quot |-> <<>>, exact |-> TRUE]
    ELSE BigDivModIn(BigDivModOf(BigShl(n, LimbBits - LimbBitLen(d[Len(d)])),
                            BigShl(d, LimbBits - LimbBitLen(d[Len(d)]))))

\* The number of zero bits below the lowest set bit of a > 0
TrailingZeros(a) ==
    LET i == CHOOSE j \in 1..Len(a) : a[j] # 0 /\ \A h \in 1..(j - 1) : a[h] = 0
        k == CHOOSE b \in 0..(LimbBits - 1) :
                 a[i] % (2 ^ (b + 1)) # 0 /\ a[i] % (2 ^ b) = 0
    IN  LimbBits * (i - 1) + k

F64Zero == [m |-> <<>>, e |-> 0]

\* m * 2^e with the trailing zero bits of m moved to the exponent
F64Make(m, e) ==
    IF Len(m) = 0 THEN F64Zero
    ELSE [m |-> BigShr(m, TrailingZeros(m)), e |-> e + TrailingZeros(m)]

\* The double nearest to (q + f) * 2^e, where 0 <= f < 1 and f > 0 iff
\* sticky, ties to the even significand: the sh low bits of q are dropped,
\* and the rest goes up by one if the dropped bits are more than half a unit,
\* or exactly half with f > 0 or an odd rest.
F64RoundBy(q, sh, sticky, e) ==
    IF /\ BigBit(q, sh - 1) = 1
       /\ (TrailingZeros(q) < sh - 1 \/ sticky \/ BigBit(q, sh) = 1)
    THEN F64Make(BigAdd(BigShr(q, sh), <<1>>), e + sh)
    ELSE F64Make(BigShr(q, sh), e + sh)

F64Round(q, sticky, e) ==
    IF BigBitLen(q) <= SignificandBits THEN F64Make(q, e)
    ELSE F64RoundBy(q, BigBitLen(q) - SignificandBits, sticky, e)

F64FromInt(n) == F64Make(BigFromInt(n), 0)

F64Mul(a, b) ==
    IF Len(a.m) = 0 \/ Len(b.m) = 0 THEN F64Zero
    ELSE F64Round(BigMul(a.m, b.m), FALSE, a.e + b.e)

F64Add(a, b) ==
    IF Len(a.m) = 0 THEN b
    ELSE IF Len(b.m) = 0 THEN a
    ELSE LET lo == IF a.e < b.e THEN a.e ELSE b.e
         IN  F64Round(BigAdd(BigShl(a.m, a.e - lo), BigShl(b.m, b.e - lo)),
                      FALSE, lo)

F64RoundQuot(qr, e) == F64Round(qr.quot, ~qr.exact, e)

\* The quotient of a * 2^sh by b, rounded
F64DivBy(a, b, sh) ==
    F64RoundQuot(BigDivMod(BigShl(a.m, sh), b.m), a.e - b.e - sh)

\* a / b for b > 0: the quotient of the significands with two bits more
\* than a double keeps
F64Div(a, b) ==
    IF Len(b.m) = 0 \/ Len(a.m) = 0 THEN F64Zero
    ELSE F64DivBy(a, b, SignificandBits + 2 + BigBitLen(b.m) - BigBitLen(a.m))

\* -1, 0 or 1 as a < b, a = b or a > b
F64Cmp(a, b) ==
    IF Len(a.m) = 0 THEN (IF Len(b.m) = 0 THEN 0 ELSE -1)
    ELSE IF Len(b.m) = 0 THEN 1
    ELSE LET lo == IF a.e < b.e THEN a.e ELSE b.e
         IN  BigCmp(BigShl(a.m, a.e - lo), BigShl(b.m, b.e - lo))

F64Less(a, b) == F64Cmp(a, b) < 0
F64Max(a, b) == IF F64Less(a, b) THEN b ELSE a
F64Min(a, b) == IF F64Less(b, a) THEN b ELSE a

\* The double of the decimal literal p / q, p and q whole numbers
F64Lit(p, q) == F64Div(F64FromInt(p), F64FromInt(q))

\* --------------------------------------------- the scoring in binary64
\* The same expressions evaluated as JavaScript evaluates them, every sum,
\* product and quotient rounded to a double, for issues whose severity is one
\* of the four levels.
F64One == F64FromInt(1)

\* SEVERITY_SCORES: 1.0, 0.75, 0.4 and 0.15, in hundredths
SeverityHundredths ==
    [critical |-> 100, high |-> 75, medium |-> 40, low |-> 15]

\* SEVERITY_SCORES[severity] || 0.4, the double the literal denotes
SEVERITY_SCORES64(severity) ==
    F64Lit(SeverityHundredths[IF severity \in DOMAIN SeverityHundredths
                              THEN severity ELSE "medium"], 100)

\* cell.issues.reduce((sum, i) => sum + ..., 0), from issue i on
RECURSIVE SeveritySum64(_, _, _)
SeveritySum64(issues, i, sum) ==
    IF i > Len(issues) THEN sum
    ELSE SeveritySum64(issues, i + 1,
                       F64Add(sum, SEVERITY_SCORES64(issues[i].severity)))

AvgSeverity64(cell) ==
    F64Div(SeveritySum64(cell.issues, 1, F64Zero), F64FromInt(Len(cell.issues)))

DensityScore64(cell) ==
    F64Min(F64Div(F64FromInt(Len(cell.issues)), F64FromInt(DENSITY_CAP)), F64One)

RecurrenceScore64(cell) ==
    F64Min(F64Div(F64FromInt(Len(UniqueCategories(cell.issues, 1, <<>>))),
                  F64FromInt(RECURRENCE_CAP)), F64One)

\* a[1] * b[1] + a[2] * b[2] + ..., added from the left, from term i on
RECURSIVE SumOfProducts64(_, _, _, _)
SumOfProducts64(a, b, i, sum) ==
    IF i > Len(a) THEN sum
    ELSE SumOfProducts64(a, b, i + 1, F64Add(sum, F64Mul(a[i], b[i])))

RawScore64(cell, isNearWater, w) ==
    SumOfProducts64(
        <<DensityScore64(cell), IF isNearWater THEN F64One ELSE F64Zero,
          AvgSeverity64(cell), RecurrenceScore64(cell)>>,
        <<w.issueDensity, w.waterProximity, w.severityFactor, w.recurrence>>,
        1, F64Zero)

ScoreCell64(cell, isNearWater, w) ==
    [lat |-> cell.lat, lng |-> cell.lng,
     score |-> RawScore64(cell, isNearWater, w),
     issueCount |-> Len(cell.issues),
     criticalCount |-> Cardinality({i \in 1..Len(cell.issues) :
                          cell.issues[i].severity \in {"critical", "high"}}),
     nearWater |-> isNearWater,
     categories |-> UniqueCategories(cell.issues, 1, <<>>),
     label |-> ""]

ScoreCells64Of(acc, z) ==
    [threw |-> FALSE, zones |-> Append(acc.zones, z),
     maxRawScore |-> F64Max(acc.maxRawScore, z.score)]

RECURSIVE ScoreCells64(_, _, _, _, _)
ScoreCells64(cellMap, c, waterwayData, w, acc) ==
    IF c > Len(cellMap) THEN acc
    ELSE LET cell == cellMap[c]
             near == nearWaterway(cell.lat, cell.lng, waterwayData, NEAR_WATER_METERS)
         IN  IF near = "throw"
             THEN [acc EXCEPT !.threw = TRUE]
             ELSE ScoreCells64(cellMap, c + 1, waterwayData, w,
                      ScoreCells64Of(acc, ScoreCell64(cell, near = "true", w)))

\* The thresholds 0.7, 0.4 and 0.2 of the labels, in tenths
LabelThresholds ==
    <<[tenths |-> 7, label |-> "Critical Priority"],
      [tenths |-> 4, label |-> "High Priority"],
      [tenths |-> 2, label |-> "Moderate Priority"]>>

\* The chain of conditionals on s, from threshold i on
RECURSIVE LabelOf64Of(_, _)
LabelOf64Of(s, i) ==
    IF i > Len(LabelThresholds) THEN "Low Priority"
    ELSE IF F64Less(F64Lit(LabelThresholds[i].tenths, 10), s)
         THEN LabelThresholds[i].label
         ELSE LabelOf64Of(s, i + 1)

\* z.score / (maxRawScore || 1) against the thresholds
LabelOf64(score, maxRawScore) ==
    LabelOf64Of(F64Div(score, IF maxRawScore = F64Zero THEN F64One ELSE maxRawScore),
                1)

\* maxRawScore > 0 ? z.score / maxRawScore : 0
NormalizedScore64(score, maxRawScore) ==
    IF F64Less(F64Zero, maxRawScore) THEN F64Div(score, maxRawScore) ELSE F64Zero

NormalizeZone64(z, maxRawScore) ==
    [z EXCEPT !.score = NormalizedScore64(z.score, maxRawScore),
              !.label = LabelOf64(z.score, maxRawScore)]

NormalizeAll64(zs, maxRawScore) ==
    [i \in 1..Len(zs) |-> NormalizeZone64(zs[i], maxRawScore)]

\* .filter((z) => z.score > 0.1)
Visible64(z) == F64Less(F64Lit(1, 10), z.score)

RECURSIVE FilterVisible64(_, _)
FilterVisible64(zs, i) ==
    IF i > Len(zs) THEN <<>>
    ELSE IF Visible64(zs[i]) THEN <<zs[i]>> \o FilterVisible64(zs, i + 1)
    ELSE FilterVisible64(zs, i + 1)

\* .sort((a, b) => b.score - a.score): stable, descending by score
InsertSorted64(sorted, z) ==
    LET before == {j \in 1..Len(sorted) : ~F64Less(sorted[j].score, z.score)}
        k == Cardinality(before)
    IN  SubSeq(sorted, 1, k) \o <<z>> \o SubSeq(sorted, k + 1, Len(sorted))

RECURSIVE SortByScore64(_, _, _)
SortByScore64(zs, i, sorted) ==
    IF i > Len(zs) THEN sorted
    ELSE SortByScore64(zs, i + 1, InsertSorted64(sorted, zs[i]))

computePriorityZones64Of(cellMap, scored, normalized) ==
    [threw |-> FALSE, cellMap |-> cellMap, rawZones |-> scored.zones,
     maxRawScore |-> scored.maxRawScore, normalized |-> normalized,
     result |-> SortByScore64(FilterVisible64(normalized, 1), 1, <<>>)]

\* The whole function in binary64, w a record of four doubles.
computePriorityZones64(issues_, waterways_, w) ==
    LET issues == ExtractIssues(issues_, 1)
        empty == [threw |-> FALSE, cellMap |-> <<>>, rawZones |-> <<>>,
                  maxRawScore |-> F64Zero, normalized |-> <<>>, result |-> <<>>]
    IN  IF Len(issues) = 0 THEN empty
        ELSE LET cellMap == BuildCellMap(issues, 1, <<>>)
                 scored == ScoreCells64(cellMap, 1, waterways_, w,
                              [threw |-> FALSE, zones |-> <<>>,
                               maxRawScore |-> F64Zero])
             IN  IF scored.threw
                 THEN [empty EXCEPT !.threw = TRUE, !.cellMap = cellMap]
                 ELSE computePriorityZones64Of(cellMap, scored,
                          NormalizeAll64(scored.zones, scored.maxRawScore))

\* DEFAULT_PRIORITY_WEIGHTS as the doubles its literals denote
DEFAULT_PRIORITY_WEIGHTS64 ==
    [k \in WeightKeys |-> F64Lit(DEFAULT_PRIORITY_WEIGHTS[k], 100)]

\* { ...weights, [key]: Number(e.target.value) / 100 }
SliderChanged(w, key, value) == [w EXCEPT ![key] = F64Lit(value, 100)]

\* Object.values(weights): the values in the order of the keys
WeightValues(w) ==
    <<w.issueDensity, w.waterProximity, w.severityFactor, w.recurrence>>

\* .reduce((a, b) => a + b, 0), from value i on
RECURSIVE WeightTotalFrom(_, _, _)
WeightTotalFrom(values, i, sum) ==
    IF i > Len(values) THEN sum
    ELSE WeightTotalFrom(values, i + 1, F64Add(sum, values[i]))

WeightTotal(w) == WeightTotalFrom(WeightValues(w), 1, F64Zero)

\* Mutant: the divisor is the largest weight.
NormalizeDivisor_Largest(w) ==
    F64Max(F64Max(w.issueDensity, w.waterProximity),
           F64Max(w.severityFactor, w.recurrence))

\* handleNormalize's divisor: the total of the weights
NormalizeDivisor(w) == WeightTotal(w)

NormalizedBy(w, total) ==
    IF total = F64Zero THEN w ELSE [k \in WeightKeys |-> F64Div(w[k], total)]

\* handleNormalize's new weights: with a total of 0 the handler returns and
\* the weights stay; otherwise every weight is divided by the total.
Normalized(w) == NormalizedBy(w, NormalizeDivisor(w))

\* ------------------------------------------------- nearest-waterway map
\* A distance is [inf, d2]: Infinity, or the square d2 of a finite distance,
\* in squared coordinate units (comparing squares compares distances).
Infinity == [inf |-> TRUE, d2 |-> Zero]
Finite(d2) == [inf |-> FALSE, d2 |-> d2]
DistLess(a, b) == ~a.inf /\ (b.inf \/ RatLess(a.d2, b.d2))
DistMin(a, b) == IF DistLess(b, a) THEN b ELSE a

Sq(x) == x * x

\* Squared distance from point p to the segment a-b (to any point of it).
SegmentDist2(p, a, b) ==
    LET len2 == Sq(b[1] - a[1]) + Sq(b[2] - a[2])
        dot == (p[1] - a[1]) * (b[1] - a[1]) + (p[2] - a[2]) * (b[2] - a[2])
        cross == (p[1] - a[1]) * (b[2] - a[2]) - (p[2] - a[2]) * (b[1] - a[1])
    IN  IF len2 = 0 \/ dot <= 0 THEN Rat(Sq(p[1] - a[1]) + Sq(p[2] - a[2]), 1)
        ELSE IF dot >= len2 THEN Rat(Sq(p[1] - b[1]) + Sq(p[2] - b[2]), 1)
        ELSE Rat(Sq(cross), len2)

\* turf.pointToLineDistance: the minimum over the line's segments; a line
\* with no segment leaves the distance at Infinity.
RECURSIVE pointToLineDistance(_, _, _)
pointToLineDistance(p, line, i) ==
    IF i >= Len(line) THEN Infinity
    ELSE DistMin(Finite(SegmentDist2(p, line[i], line[i + 1])),
                 pointToLineDistance(p, line, i + 1))

\* Mutant: only one part of a MultiLineString is measured.
MultiLineDistance_OnePart(p, lines, j) == pointToLineDistance(p, lines[j], 1)

\* Math.min(...coords.map(...)) over the parts of a MultiLineString
RECURSIVE MultiLineDistance(_, _, _)
MultiLineDistance(p, lines, j) ==
    IF j > Len(lines) THEN Infinity
    ELSE DistMin(pointToLineDistance(p, lines[j], 1),
                 MultiLineDistance(p, lines, j + 1))

\* Mutant: a multi-line with a part of fewer than two positions is measured
\* by its other parts instead of being passed over.
FeatureDistance_KeepValidParts(p, wwFeat) ==
    IF wwFeat.gtype = "LineString"
    THEN [skip |-> FALSE, dist |-> pointToLineDistance(p, wwFeat.lines[1], 1)]
    ELSE IF wwFeat.gtype = "MultiLineString"
    THEN [skip |-> FALSE, dist |-> MultiLineDistance(p, wwFeat.lines, 1)]
    ELSE [skip |-> TRUE, dist |-> Infinity]

\* The body of the try block for one waterway feature: the distance the
\* feature yields, or "skip" (continue, or an exception caught).
\* turf.lineString throws on a part of fewer than two positions.
FeatureDistance(p, wwFeat) ==
    IF wwFeat.gtype = "LineString"
    THEN [skip |-> FALSE, dist |-> pointToLineDistance(p, wwFeat.lines[1], 1)]
    ELSE IF wwFeat.gtype = "MultiLineString"
    THEN IF \E j \in 1..Len(wwFeat.lines) : Len(wwFeat.lines[j]) < 2
         THEN [skip |-> TRUE, dist |-> Infinity]
         ELSE [skip |-> FALSE, dist |-> MultiLineDistance(p, wwFeat.lines, 1)]
    ELSE [skip |-> TRUE, dist |-> Infinity]

\* The inner loop: [minDist, closestName] after the features from k on.
RECURSIVE ScanWaterways(_, _, _, _)
ScanWaterways(p, waterways, k, best) ==
    IF k > Len(waterways) THEN best
    ELSE LET fd == FeatureDistance(p, waterways[k])
         IN  IF ~fd.skip /\ DistLess(fd.dist, best.minDist)
             THEN ScanWaterways(p, waterways, k + 1,
                      [minDist |-> fd.dist,
                       closestName |-> OrDefault(waterways[k].name, "Unnamed waterway")])
             ELSE ScanWaterways(p, waterways, k + 1, best)

\* Math.round(minDist) in feet, minDist = sqrt(d2) units of UnitFt feet
RoundFeet(d2) ==
    LET u == 4 * UnitFt * UnitFt
        q == d2.num \div d2.den
        r == d2.num % d2.den
    IN  (Isqrt(u * q + (u * r) \div d2.den) + 1) \div 2

\* Mutant: an entry is set whether or not a distance was found.
RECURSIVE NearestFrom_AlwaysSet(_, _, _, _)
NearestFrom_AlwaysSet(features, waterways, i, map) ==
    IF i > Len(features) THEN map
    ELSE LET f == features[i] IN
         IF f.gtype # "Point" \/ f.id = 0
         THEN NearestFrom_AlwaysSet(features, waterways, i + 1, map)
         ELSE LET best == ScanWaterways(<<f.lat, f.lng>>, waterways, 1,
                              [minDist |-> Infinity, closestName |-> ""])
                  entry == [name |-> best.closestName,
                            distFt |-> RoundFeet(best.minDist.d2)]
              IN  NearestFrom_AlwaysSet(features, waterways, i + 1,
                      [x \in DOMAIN map \cup {f.id} |->
                          IF x = f.id THEN entry ELSE map[x]])

\* The useMemo body: the map as a function from issue ids to entries.
RECURSIVE NearestFrom(_, _, _, _)
NearestFrom(features, waterways, i, map) ==
    IF i > Len(features) THEN map
    ELSE LET f == features[i] IN
         IF f.gtype # "Point" \/ f.id = 0
         THEN NearestFrom(features, waterways, i + 1, map)
         ELSE LET best == ScanWaterways(<<f.lat, f.lng>>, waterways, 1,
                              [minDist |-> Infinity, closestName |-> ""])
                  entry == [name |-> best.closestName,
                            distFt |-> RoundFeet(best.minDist.d2)]
              IN  IF best.minDist.inf
                  THEN NearestFrom(features, waterways, i + 1, map)
                  ELSE NearestFrom(features, waterways, i + 1,
                          [x \in DOMAIN map \cup {f.id} |->
                              IF x = f.id THEN entry ELSE map[x]])

EmptyMap == [x \in {} |-> 0]

nearestWaterwayMap(data, waterways) ==
    IF Len(waterways) = 0 THEN EmptyMap
    ELSE NearestFrom(data, waterways, 1, EmptyMap)

\* ------------------------------------------------------------------ inputs
CellA == <<0, 0>>
CellB == <<2 * GridUnits, 0>>

Issue(gtype, pos, severity, category) ==
    [id |-> 0, gtype |-> gtype, lat |-> pos[1], lng |-> pos[2],
     severity |-> severity, category |-> category]

\* The feature kinds short issue lists are drawn from.
Features ==
    { Issue("Point", CellA, "critical", "erosion"),
      Issue("Point", CellB, "critical", "erosion"),
      Issue("Point", CellB, "medium", "erosion"),
      Issue("Point", <<1, 0>>, "low", "graffiti"),
      Issue("Polygon", CellA, "critical", "erosion") }

Categories ==
    <<"erosion", "graffiti", "vegetation", "signage", "safety",
      "trash_dumping", "snow_ice", "parking_lot">>

\* n issues in cell A, the first of severity first and the others of
\* severity rest, cycling through k categories.
Cluster(n, k, first, rest) ==
    [i \in 1..n |-> Issue("Point", CellA, IF i = 1 THEN first ELSE rest,
                          Categories[((i - 1) % k) + 1])]

SeverityPatterns ==
    { <<"critical", "medium">>, <<"high", "urgent">>, <<"", "low">> }

Tails == { <<>>, <<Issue("Point", CellB, "critical", "erosion")>> }

RECURSIVE SeqsUpTo(_, _)
SeqsUpTo(S, n) ==
    IF n = 0 THEN {<<>>}
    ELSE LET shorter == SeqsUpTo(S, n - 1)
         IN  shorter \cup {Append(s, x) : s \in {t \in shorter : Len(t) = n - 1}, x \in S}

\* Every feature of a collection carries its own id.
WithIds(features) == [i \in 1..Len(features) |-> [features[i] EXCEPT !.id = i]]

ShortLists == { WithIds(s) : s \in SeqsUpTo(Features, MaxIssues) }

ClusterLists ==
    { WithIds(Cluster(n, k, p[1], p[2]) \o t) :
        n \in 1..MaxCluster, k \in 1..MaxCategories, p \in SeverityPatterns, t \in Tails }

Waterway(name, gtype, lines) == [name |-> name, gtype |-> gtype, lines |-> lines]

\* A creek with a vertex one unit (under 50 m) from the centre of cell A.
BearCreek ==
    Waterway("Bear Creek", "LineString", << <<<<0, 1>>, <<0, 3 * GridUnits>>>> >>)
\* A canal whose only two vertices are two grid edges from the centre of
\* cell A, and whose segment runs through that centre.
HighLineCanal ==
    Waterway("High Line Canal", "LineString",
             << <<<<0, -2 * GridUnits>>, <<0, 2 * GridUnits>>>> >>)
\* A river of two parts; the second has a vertex 3 units from the centre of cell B.
SouthPlatte ==
    Waterway("South Platte River", "MultiLineString",
             << <<<<4 * GridUnits, 0>>, <<4 * GridUnits, GridUnits>>>>,
                <<<<2 * GridUnits, 3>>, <<2 * GridUnits, 2 * GridUnits>>>> >>)
Pond == Waterway("", "Polygon", <<>>)
NoGeometry == Waterway("Dutch Creek", "null", <<>>)

WaterwayLists ==
    { <<>>, <<BearCreek>>, <<HighLineCanal>>, <<Pond, SouthPlatte>>,
      <<NoGeometry, BearCreek>> }

\* The data sets the layers are mounted with: the short issue lists with
\* every waterway list, the clusters with no waterway and with one.
Datasets ==
    (ShortLists \X WaterwayLists) \cup (ClusterLists \X { <<>>, <<BearCreek>> })

DensityWeights == {-25, 0, 35}
WaterWeights == {0, 25}
SeverityWeights == {0, 25, 150}
RecurrenceWeights == {0, 15}

WeightVectors ==
    [issueDensity : DensityWeights, waterProximity : WaterWeights,
     severityFactor : SeverityWeights, recurrence : RecurrenceWeights]

\* The two vectors the slider moves between where the weights are not the
\* subject: the defaults, and the defaults with the density slider at 0.
SmallWeightVectors ==
    { DEFAULT_PRIORITY_WEIGHTS,
      [DEFAULT_PRIORITY_WEIGHTS EXCEPT !.issueDensity = 0] }

\* The ids a click highlights: none (0), or the first issue's.
HighlightIds == {0, 1}

\* Pairs of Point issues on a lattice of positions around the origin: every
\* latitude within one grid edge of it, and two longitudes at or just past
\* the half-edge where rounding switches cells.
GridLatitudes == (-GridUnits)..GridUnits
GridLongitudes == {0, (GridUnits + 1) \div 2}
GridPositions == GridLatitudes \X GridLongitudes
GridPairLists ==
    { WithIds(<<Issue("Point", p, "medium", "erosion"),
                Issue("Point", q, "high", "graffiti")>>) :
        p \in GridPositions, q \in GridPositions }

\* An unnamed ditch as far from the centre of cell A as the South Platte's
\* second part is (its mirror image in the meridian through that centre).
Ditch ==
    Waterway("", "LineString",
             << <<<<-2 * GridUnits, 3>>, <<-2 * GridUnits, 2 * GridUnits>>>> >>)
\* A line of one position at the centre of cell A: it has no segment.
Stub == Waterway("Willow Creek", "LineString", << <<CellA>> >>)
\* A river through the centre of cell A one of whose parts has one position.
BrokenRiver ==
    Waterway("Big Dry Creek", "MultiLineString",
             << <<<<0, -1>>, <<0, 1>>>>, <<<<1, 1>>>> >>)

\* The waterway features, and the waterway collections, the nearest-waterway
\* map is computed for.
LocatorWaterways ==
    { BearCreek, HighLineCanal, SouthPlatte, Ditch, Pond, NoGeometry, Stub,
      BrokenRiver }
LocatorWaterwayLists == SeqsUpTo(LocatorWaterways, MaxWaterways)

\* The issue collections the map is computed for: none; one issue; two in
\* two cells; three with one off-centre and one that is not a Point; two of
\* which the first has no id.
LocatorIssueLists ==
    { <<>>,
      WithIds(<<Issue("Point", CellA, "high", "erosion")>>),
      WithIds(<<Issue("Point", CellB, "low", "graffiti"),
                Issue("Point", CellA, "high", "erosion")>>),
      WithIds(<<Issue("Point", <<1, 0>>, "low", "graffiti"),
                Issue("Polygon", CellA, "critical", "erosion"),
                Issue("Point", CellB, "medium", "erosion")>>),
      [WithIds(<<Issue("Point", CellA, "high", "erosion"),
                 Issue("Point", CellB, "low", "graffiti")>>) EXCEPT ![1].id = 0] }

\* What /api/spatial answers with: never an empty collection.
FetchedWaterwayLists == { <<BearCreek>>, <<NoGeometry, HighLineCanal>> }
FetchedIssueLists ==
    { WithIds(<<Issue("Point", CellB, "low", "graffiti"),
                Issue("Point", CellA, "high", "erosion")>>) }

\* The severity values a feature's properties can carry: the four known
\* ones, none, one that is no severity, and one that names an inherited
\* member of the look-up table.
SeverityValues ==
    {"critical", "high", "medium", "low", "", "urgent", "constructor"}

\* Short issue lists with every severity value in cell A and one issue in cell B.
SeverityFeatures ==
    { Issue("Point", CellA, sev, "erosion") : sev \in SeverityValues }
    \cup { Issue("Point", CellB, "high", "graffiti") }
SeverityLists == { WithIds(l) : l \in SeqsUpTo(SeverityFeatures, MaxIssues) }

\* The positions the sliders are moved to, of 0..100.
SliderValues == {0, 100}

\* The issue collections the weight control is exercised on, each of two
\* cells, cell A near Bear Creek.  In exact arithmetic the second zone
\* scores 0.7 of the first in the first list under the weights
\* (0.35, 0.25, 1, 0.15) and in the second under (0, 0.25, 1, 0.15), and 0.1
\* of the first in the third under (0, 1, 1, 0.15): each on a threshold.
ControlIssueLists ==
    { WithIds(<<Issue("Point", CellA, "medium", "erosion"),
                Issue("Point", CellA, "low", "graffiti"),
                Issue("Point", CellB, "medium", "erosion")>>),
      WithIds(<<Issue("Point", CellB, "critical", "erosion"),
                Issue("Point", CellB, "medium", "graffiti"),
                Issue("Point", CellB, "medium", "erosion"),
                Issue("Point", CellB, "medium", "erosion"),
                Issue("Point", CellA, "low", "erosion")>>),
      WithIds(<<Issue("Point", CellA, "critical", "erosion"),
                Issue("Point", CellA, "critical", "graffiti"),
                Issue("Point", CellA, "medium", "erosion"),
                Issue("Point", CellB, "low", "erosion")>>) }

\* The weights one press sets from the weights W, the sliders moved to one
\* of values
WeightsAfterPress(W, values) ==
    W \cup {Normalized(w) : w \in W} \cup {DEFAULT_PRIORITY_WEIGHTS64}
      \cup {SliderChanged(w, k, v) : w \in W, k \in WeightKeys, v \in values}

RECURSIVE WeightsWithin(_, _)
WeightsWithin(n, values) ==
    IF n = 0 THEN {DEFAULT_PRIORITY_WEIGHTS64}
    ELSE WeightsAfterPress(WeightsWithin(n - 1, values), values)

\* The weights the control is followed to: those MaxPresses presses of its
\* sliders and buttons can set, and those MaxZeroed presses can set that move
\* sliders to 0 only.
FollowedWeights ==
    WeightsWithin(MaxPresses, SliderValues) \cup WeightsWithin(MaxZeroed, {0})

\* ------------------------------------------------------------ the work queue
\* Math.atan2(Math.sqrt(a), Math.sqrt(1 - a)) of the haversine formula, the
\* same expression in distanceMeters and haversineDistance: half the central
\* angle of the two points, that of the whole metres between them.
HalfAngle64(lat1, lng1, lat2, lng2) ==
    F64Div(F64FromInt(distanceMeters(lat1, lng1, lat2, lng2)),
           F64FromInt(2 * EarthRadiusMeters))

\* distanceMeters in doubles: R * 2 * Math.atan2(...)
distanceMeters64(lat1, lng1, lat2, lng2) ==
    F64Mul(F64FromInt(EarthRadiusMeters * 2), HalfAngle64(lat1, lng1, lat2, lng2))

\* const R = 3958.8: the Earth radius in miles
EarthRadiusMiles == F64Lit(39588, 10)

\* haversineDistance of the work queue, in miles: R * 2 * Math.atan2(...)
haversineDistance(lat1, lon1, lat2, lon2) ==
    F64Mul(F64Mul(EarthRadiusMiles, F64FromInt(2)),
           HalfAngle64(lat1, lon1, lat2, lon2))

SEVERITY_ORDER == [critical |-> 0, high |-> 1, medium |-> 2, low |-> 3]

\* A MaintenanceIssue of the queue; reportedAt is <<month, day>> of one year,
\* the month counted from 0 as Date.getMonth does.
QueueIssue(id, pos, category, severity, status, reportedAt) ==
    [id |-> id, latitude |-> pos[1], longitude |-> pos[2],
     category |-> category, severity |-> severity, status |-> status,
     reportedAt |-> reportedAt]

\* new Date(reportedAt).getMonth() and .getTime(), the latter in days
GetMonth(reportedAt) == reportedAt[1]
GetTime(reportedAt) == 31 * reportedAt[1] + reportedAt[2]

\* issuesWithDistance: every issue with a distance, <<>> for null and <<d>>
\* for the number d.  userLocation is <<>> for null, or <<lat, lng>>.
issuesWithDistance(issues, userLocation) ==
    [i \in 1..Len(issues) |->
        [id |-> issues[i].id,
         latitude |-> issues[i].latitude, longitude |-> issues[i].longitude,
         category |-> issues[i].category, severity |-> issues[i].severity,
         status |-> issues[i].status, reportedAt |-> issues[i].reportedAt,
         distance |-> IF Len(userLocation) = 0 THEN <<>>
                      ELSE <<haversineDistance(userLocation[1], userLocation[2],
                                               issues[i].latitude,
                                               issues[i].longitude)>>]]

\* The filters of filteredAndSorted.  filterMonths is a set of months, empty
\* for null and for []: the code treats the two alike.
StatusKept(i, filterStatus, filterMonths) ==
    IF filterStatus = "open" THEN i.status # "resolved"
    ELSE IF filterStatus # "all" THEN i.status = filterStatus
    ELSE IF filterMonths = {} THEN i.status # "resolved"
    ELSE TRUE

Kept(i, f) ==
    /\ StatusKept(i, f.filterStatus, f.filterMonths)
    /\ f.filterSeverity # "all" => i.severity = f.filterSeverity
    /\ f.filterCategory # "all" => i.category = f.filterCategory
    /\ f.filterMonths # {} => GetMonth(i.reportedAt) \in f.filterMonths

Filtered(decorated, f) == SelectSeq(decorated, LAMBDA i : Kept(i, f))

\* Mutant: the nearest issue comes last.
CompareProximity_Farthest(a, b) ==
    IF Len(a.distance) # 0 /\ Len(b.distance) # 0
    THEN F64Cmp(b.distance[1], a.distance[1])
    ELSE 0

\* The sign of a.distance - b.distance when both are numbers, else 0
CompareProximity(a, b) ==
    IF Len(a.distance) # 0 /\ Len(b.distance) # 0
    THEN F64Cmp(a.distance[1], b.distance[1])
    ELSE 0

\* The comparator of the sort: negative when a goes first
Compare(a, b, sortMode) ==
    IF sortMode = "proximity" THEN CompareProximity(a, b)
    ELSE IF sortMode = "severity"
    THEN SEVERITY_ORDER[a.severity] - SEVERITY_ORDER[b.severity]
    ELSE IF sortMode = "date"
    THEN GetTime(b.reportedAt) - GetTime(a.reportedAt)
    ELSE 0

\* x put into the sorted list s behind every element that does not go after it
RECURSIVE InsertQueue(_, _, _, _)
InsertQueue(s, x, sortMode, i) ==
    IF i > Len(s) THEN Append(s, x)
    ELSE IF Compare(x, s[i], sortMode) < 0
    THEN SubSeq(s, 1, i - 1) \o <<x>> \o SubSeq(s, i, Len(s))
    ELSE InsertQueue(s, x, sortMode, i + 1)

\* Array.prototype.sort is stable: elements that compare equal keep their
\* order.
RECURSIVE SortQueue(_, _, _, _)
SortQueue(list, sortMode, i, sorted) ==
    IF i > Len(list) THEN sorted
    ELSE SortQueue(list, sortMode, i + 1, InsertQueue(sorted, list[i], sortMode, 1))

filteredAndSorted(decorated, sortMode, f) ==
    SortQueue(Filtered(decorated, f), sortMode, 1, <<>>)

\* The props initialStatus, initialSeverity, initialCategory, initialMonths
\* of a drilldown, "" and {} for undefined; and the filters useState and the
\* effect make of them.
NoDrilldown ==
    [initialStatus |-> "", initialSeverity |-> "", initialCategory |-> "",
     initialMonths |-> {}]

FiltersOf(props) ==
    [filterStatus |-> IF props.initialStatus = "" THEN "all" ELSE props.initialStatus,
     filterSeverity |-> IF props.initialSeverity = "" THEN "all" ELSE props.initialSeverity,
     filterCategory |-> IF props.initialCategory = "" THEN "all" ELSE props.initialCategory,
     filterMonths |-> props.initialMonths]

\* The queue after a render: its props, its state and its two memos, the
\* second computed from the first.
QueueWith(issues, userLocation, props, sortMode, f, decorated) ==
    [issues |-> issues, userLocation |-> userLocation, props |-> props,
     sortMode |-> sortMode, filters |-> f,
     issuesWithDistance |-> decorated,
     filteredAndSorted |-> filteredAndSorted(decorated, sortMode, f)]

Queue(issues, userLocation, props, sortMode, f) ==
    QueueWith(issues, userLocation, props, sortMode, f,
              issuesWithDistance(issues, userLocation))

\* The queue as it mounts: the sort mode is proximity if there is a location.
MountQueue(issues, userLocation, props) ==
    Queue(issues, userLocation, props,
          IF Len(userLocation) # 0 THEN "proximity" ELSE "severity",
          FiltersOf(props))

\* The places the user is located at, in coordinate units
UserLocations == { <<0, 0>>, <<GridUnits, 3>> }

QueueIssueLists ==
    { <<QueueIssue(1, <<2 * GridUnits, 0>>, "erosion", "high", "reported", <<5, 2>>),
        QueueIssue(2, <<1, 0>>, "graffiti", "low", "assigned", <<0, 9>>),
        QueueIssue(3, <<0, GridUnits>>, "erosion", "critical", "resolved", <<5, 1>>),
        QueueIssue(4, <<0, 0>>, "erosion", "medium", "in_progress", <<2, 4>>)>>,
      <<QueueIssue(1, <<1, 1>>, "graffiti", "medium", "reported", <<0, 1>>),
        QueueIssue(2, <<1, 1>>, "erosion", "critical", "reported", <<0, 2>>),
        QueueIssue(3, <<3 * GridUnits, 0>>, "erosion", "low", "reported", <<0, 3>>)>> }

StatusFilters == {"all", "reported", "assigned", "in_progress", "resolved"}
SortModes == {"proximity", "severity", "date"}
CategoryFilters == {"all", "erosion"}

\* The drilldowns of the statistics panel that are followed
Drilldowns ==
    { [NoDrilldown EXCEPT !.initialStatus = "open"],
      [NoDrilldown EXCEPT !.initialSeverity = "critical"],
      [NoDrilldown EXCEPT !.initialMonths = {5}] }

\* ------------------------------------------------------------------- state
VARIABLES
    issueData,          \* maintenanceData: the issue features
    waterwayData,       \* waterwaysData: the waterway features
    weights,            \* priorityWeights: hundredths, or doubles (SpecControl)
    highlightId,        \* highlightFeatureId: 0 for null, else an issue id
    dataSource,         \* "local", or "supabase" once fetched layers are in
    run,                \* PriorityZonesLayer's memoised computePriorityZones call
    nearestMap,         \* MaintenanceLayer's memoised nearestWaterwayMap
    executed,           \* the steps the last render executed
    workQueue           \* WorkQueue's props, state and memos; <<>> while
                        \* the task panel is not shown

vars ==
    <<issueData, waterwayData, weights, highlightId, dataSource, run,
      nearestMap, executed, workQueue>>

\* The variables of the map and its layers
mapVars ==
    <<issueData, waterwayData, weights, highlightId, dataSource, run,
      nearestMap, executed>>

NotRendered == <<>>

\* What the last computePriorityZones call returned and computed on the way.
zones == run.result
threw == run.threw
cellMap == run.cellMap
rawZones == run.rawZones
maxRawScore == run.maxRawScore
normalized == run.normalized

\* useMemo's dependency array of PriorityZonesLayer: does a render with
\* these props compute the zones again?
ZonesDepsChanged(d, ww, w, hl) ==
    d # issueData \/ ww # waterwayData \/ w # weights

\* Mutant: the highlighted id is one of the dependencies of the map.
NearestDepsChanged_WithHighlight(d, ww, w, hl) ==
    d # issueData \/ ww # waterwayData \/ hl # highlightId

\* useMemo's dependency array of MaintenanceLayer
NearestDepsChanged(d, ww, w, hl) ==
    d # issueData \/ ww # waterwayData

\* The steps a computePriorityZones call executes: with no Point issue it
\* returns before the grid is built.
ZoneSteps(d) ==
    IF Len(ExtractIssues(d, 1)) = 0 THEN {} ELSE {"grid", "score"}

\* The steps the nearest-waterway memo body executes: with no waterway it
\* returns before the scan.
NearestSteps(ww) == IF Len(ww) = 0 THEN {} ELSE {"scan"}

\* The first render of the two layers: both memos are computed.
Mount(d, ww) ==
    /\ issueData = d
    /\ waterwayData = ww
    /\ weights = DEFAULT_PRIORITY_WEIGHTS
    /\ highlightId = 0
    /\ dataSource = "local"
    /\ run = computePriorityZones(d, ww, weights)
    /\ nearestMap = nearestWaterwayMap(d, ww)
    /\ executed = ZoneSteps(d) \cup NearestSteps(ww)

\* A later render with props d, ww, w, hl: each memo is computed again when
\* one of its dependencies changed, and kept otherwise.
Render(d, ww, w, hl) ==
    /\ issueData' = d
    /\ waterwayData' = ww
    /\ weights' = w
    /\ highlightId' = hl
    /\ run' = IF ZonesDepsChanged(d, ww, w, hl)
              THEN computePriorityZones(d, ww, w) ELSE run
    /\ nearestMap' = IF NearestDepsChanged(d, ww, w, hl)
                     THEN nearestWaterwayMap(d, ww) ELSE nearestMap
    /\ executed' = (IF ZonesDepsChanged(d, ww, w, hl) THEN ZoneSteps(d) ELSE {})
                   \cup (IF NearestDepsChanged(d, ww, w, hl)
                         THEN NearestSteps(ww) ELSE {})
    /\ UNCHANGED workQueue

Init == workQueue = NotRendered /\ \E ds \in Datasets : Mount(ds[1], ds[2])

\* The weights prop changes in one component, to a vector of W.
SetWeightsIn(W) ==
    \E w \in W :
        /\ Cardinality({k \in DOMAIN w : w[k] # weights[k]}) = 1
        /\ Render(issueData, waterwayData, w, highlightId)
        /\ UNCHANGED dataSource

SetWeights == SetWeightsIn(WeightVectors)

\* A click highlights another issue, or none: the layers render again with
\* the same data and weights.
SetHighlight ==
    \E hl \in HighlightIds :
        /\ hl # highlightId
        /\ Render(issueData, waterwayData, weights, hl)
        /\ UNCHANGED dataSource

\* The fetched layers arrive, once: the waterways and the issues that came
\* back non-empty replace the local ones, in one render.
LoadLayers ==
    /\ dataSource = "local"
    /\ \E ww \in FetchedWaterwayLists \cup {waterwayData} :
       \E d \in FetchedIssueLists \cup {issueData} :
           /\ ww # waterwayData \/ d # issueData
           /\ Render(d, ww, weights, highlightId)
    /\ dataSource' = "supabase"

Next == SetWeights

Spec == Init /\ [][Next]_vars

\* The layers mounted with a pair of issues near the origin and no waterway.
InitGrid == workQueue = NotRendered /\ \E d \in GridPairLists : Mount(d, <<>>)

NextGrid == SetWeightsIn(SmallWeightVectors) \/ SetHighlight

SpecGrid == InitGrid /\ [][NextGrid]_vars

\* onWeightsChange(w) from the weight control: MapWrapper keeps w, and
\* PriorityZonesLayer computes the zones again when it is given a new object.
onWeightsChange(w, fresh) ==
    /\ w \in FollowedWeights
    /\ weights' = w
    /\ run' = computePriorityZones64(issueData, waterwayData, w)
    /\ executed' = IF fresh THEN ZoneSteps(issueData) ELSE {}
    /\ UNCHANGED <<issueData, waterwayData, highlightId, dataSource, nearestMap,
                   workQueue>>

handleSliderChange ==
    \E key \in WeightKeys : \E value \in SliderValues :
        onWeightsChange(SliderChanged(weights, key, value), TRUE)

\* DEFAULT_PRIORITY_WEIGHTS is one object: handed over while it already is
\* the weights, it leaves the memo alone.  Weights equal to the defaults are
\* that object or a copy a slider made.
handleReset ==
    \E fresh \in {TRUE, weights # DEFAULT_PRIORITY_WEIGHTS64} :
        onWeightsChange(DEFAULT_PRIORITY_WEIGHTS64, fresh)

handleNormalize ==
    IF WeightTotal(weights) = F64Zero
    THEN UNCHANGED vars
    ELSE onWeightsChange(Normalized(weights), TRUE)

\* The layers mounted with two cells and a creek, the weights as doubles.
InitControl ==
    \E d \in ControlIssueLists :
        /\ issueData = d
        /\ waterwayData = <<BearCreek>>
        /\ weights = DEFAULT_PRIORITY_WEIGHTS64
        /\ highlightId = 0
        /\ dataSource = "local"
        /\ run = computePriorityZones64(d, waterwayData, weights)
        /\ nearestMap = nearestWaterwayMap(d, waterwayData)
        /\ executed = ZoneSteps(d) \cup NearestSteps(waterwayData)
        /\ workQueue = NotRendered

NextControl == handleSliderChange \/ handleNormalize \/ handleReset

SpecControl == InitControl /\ [][NextControl]_vars

\* The layers mounted with issues of every severity value and one waterway.
InitSeverity ==
    workQueue = NotRendered /\ \E d \in SeverityLists : Mount(d, <<BearCreek>>)

NextSeverity == SetWeightsIn(SmallWeightVectors) \/ SetHighlight

SpecSeverity == InitSeverity /\ [][NextSeverity]_vars

\* The layers mounted with the collections the nearest-waterway map is
\* computed for; weights, highlight and fetched layers change afterwards.
InitLocator ==
    /\ workQueue = NotRendered
    /\ \E d \in LocatorIssueLists : \E ww \in LocatorWaterwayLists : Mount(d, ww)

NextLocator == SetWeightsIn(SmallWeightVectors) \/ SetHighlight \/ LoadLayers

SpecLocator == InitLocator /\ [][NextLocator]_vars

\* ------------------------------------------------------ the task panel
\* The queue renders with new state; its distances are kept, as the issues
\* and the location they are computed from are.
SetQueueState(sortMode, f, props) ==
    /\ workQueue' = QueueWith(workQueue.issues, workQueue.userLocation, props,
                              sortMode, f, workQueue.issuesWithDistance)
    /\ UNCHANGED mapVars

\* The filters after a press that sets them to f and calls onClearFilter:
\* when a drilldown was shown, its props go back to undefined and the effect
\* sets every filter to its default.
AfterClearFilter(f) ==
    IF workQueue.props # NoDrilldown THEN FiltersOf(NoDrilldown) ELSE f

\* A sort button; the one of proximity is disabled without a location.
setSortMode ==
    \E m \in SortModes :
        /\ m = "proximity" => Len(workQueue.userLocation) # 0
        /\ SetQueueState(m, workQueue.filters, workQueue.props)

\* A status button
setFilterStatus ==
    \E v \in StatusFilters :
        SetQueueState(workQueue.sortMode,
                      AfterClearFilter([workQueue.filters EXCEPT
                                           !.filterStatus = v,
                                           !.filterMonths = {}]),
                      NoDrilldown)

\* The category select
setFilterCategory ==
    \E c \in CategoryFilters :
        SetQueueState(workQueue.sortMode,
                      AfterClearFilter([workQueue.filters EXCEPT
                                           !.filterCategory = c,
                                           !.filterMonths = {}]),
                      NoDrilldown)

\* The Clear button of the drilldown banner
clearFilter ==
    /\ workQueue.props # NoDrilldown
    /\ SetQueueState(workQueue.sortMode, FiltersOf(NoDrilldown), NoDrilldown)

\* A drilldown from the statistics panel: the queue, not shown beside that
\* panel, mounts with the filter as its props.
handleStatsDrillDown ==
    \E props \in Drilldowns :
        /\ workQueue' = MountQueue(workQueue.issues, workQueue.userLocation, props)
        /\ UNCHANGED mapVars

\* navigator.geolocation answers, once: the queue renders with the location.
setUserLocation ==
    /\ Len(workQueue.userLocation) = 0
    /\ \E pos \in UserLocations :
           workQueue' = Queue(workQueue.issues, pos, workQueue.props,
                              workQueue.sortMode, workQueue.filters)
    /\ UNCHANGED mapVars

\* The issues with the status of the one with this id set
StatusUpdated(issues, issueId, newStatus) ==
    [i \in 1..Len(issues) |->
        IF issues[i].id # issueId THEN issues[i]
        ELSE [issues[i] EXCEPT !.status = newStatus]]

\* The first issue of the queue is opened and resolved in the detail view;
\* the queue, not shown beside that view, mounts again with the new issues.
handleIssueStatusUpdate ==
    /\ Len(workQueue.filteredAndSorted) > 0
    /\ workQueue.filteredAndSorted[1].status # "resolved"
    /\ workQueue' = MountQueue(StatusUpdated(workQueue.issues,
                                             workQueue.filteredAndSorted[1].id,
                                             "resolved"),
                               workQueue.userLocation, workQueue.props)
    /\ UNCHANGED mapVars

\* The task panel shown beside a map without data, located or not.
InitQueue ==
    /\ Mount(<<>>, <<>>)
    /\ \E issues \in QueueIssueLists : \E pos \in UserLocations \cup {<<>>} :
           workQueue = MountQueue(issues, pos, NoDrilldown)

NextQueue ==
    \/ setSortMode
    \/ setFilterStatus
    \/ setFilterCategory
    \/ clearFilter
    \/ handleStatsDrillDown
    \/ setUserLocation
    \/ handleIssueStatusUpdate

SpecQueue == InitQueue /\ [][NextQueue]_vars

\* ============================================================== properties
NoPoints == \A i \in 1..Len(issueData) : issueData[i].gtype # "Point"
\* Every waterway feature has a geometry, as the FeatureCollection type says.
WellFormedWaterways ==
    \A k \in 1..Len(waterwayData) : waterwayData[k].gtype # "null"
WeightSum ==
    weights.issueDensity + weights.waterProximity
    + weights.severityFactor + weights.recurrence
AllWeightsZero == \A k \in WeightKeys : weights[k] = 0

\* C1: every returned zone has a normalized score in [0, 1], whatever the
\* issues, the waterways and the weights (weights below 0 and above 1 included).
C1_ScoreInUnitInterval ==
    \A i \in 1..Len(zones) :
        /\ zones[i].score.den > 0
        /\ 0 <= zones[i].score.num
        /\ zones[i].score.num <= zones[i].score.den

\* C1 witness: a call with a negative weight and a weight above 1 returned
\* two zones, one of them scored strictly below 1.
C1_Witness ==
    /\ weights.issueDensity < 0
    /\ weights.severityFactor > 100
    /\ Len(zones) >= 2
    /\ \E i \in 1..Len(zones) : zones[i].score.num < zones[i].score.den

\* C2: whenever a zone is returned, the first zone of the list has normalized
\* score exactly 1.
C2_TopZoneIsOne ==
    Len(zones) > 0 => zones[1].score.num = zones[1].score.den

\* C2 witness: two zones were returned and the top one is not the cell that
\* was scored first, so the order is the sort's doing.
C2_Witness ==
    /\ Len(zones) >= 2
    /\ Len(rawZones) >= 2
    /\ <<zones[1].lat, zones[1].lng>> # <<rawZones[1].lat, rawZones[1].lng>>
    /\ zones[2].score.num < zones[2].score.den

C5_NoPointsNoOutput ==
    NoPoints => (zones = <<>> /\ ~threw /\ DOMAIN nearestMap = {})

\* C5 witness: a non-empty issue list without Point features met a waterway
\* list holding a feature without geometry, under weights that are not all 0.
C5_Witness ==
    /\ NoPoints
    /\ Len(issueData) > 0
    /\ ~WellFormedWaterways
    /\ ~AllWeightsZero

\* Scenario A: two Point issues of one cell, both critical and of category
\* erosion, a waterway vertex within 50 m of the cell centre, default weights.
ScenarioA ==
    /\ Len(issueData) = 2
    /\ \A i \in 1..2 : /\ issueData[i].gtype = "Point"
                       /\ issueData[i].severity = "critical"
                       /\ issueData[i].category = "erosion"
    /\ RoundToCell(issueData[1].lat) = RoundToCell(issueData[2].lat)
    /\ RoundToCell(issueData[1].lng) = RoundToCell(issueData[2].lng)
    /\ WellFormedWaterways
    /\ \E k \in 1..Len(waterwayData) :
         /\ waterwayData[k].gtype = "LineString"
         /\ \E v \in 1..Len(waterwayData[k].lines[1]) :
              LET c == waterwayData[k].lines[1][v]
              IN  (Sq(c[1] - RoundToCell(issueData[1].lat) * GridUnits)
                   + Sq(c[2] - RoundToCell(issueData[1].lng) * GridUnits))
                  * Sq(GridEdgeM) < Sq(50 * GridUnits)
    /\ weights = [issueDensity |-> 35, waterProximity |-> 25,
                  severityFactor |-> 25, recurrence |-> 15]

RefRawNum(n, k, near, sev100) ==
    (IF n < 8 THEN n ELSE 8) * 400 * n * weights.issueDensity
    + (IF near THEN 3200 * n * weights.waterProximity ELSE 0)
    + 32 * sev100 * weights.severityFactor
    + (IF k < 4 THEN k ELSE 4) * 800 * n * weights.recurrence

Sev100(issue) ==
    CASE issue.severity = "critical" -> 100
      [] issue.severity = "high" -> 75
      [] issue.severity = "low" -> 15
      [] OTHER -> 40

RECURSIVE SumSev100(_, _)
SumSev100(issues, i) ==
    IF i > Len(issues) THEN 0 ELSE Sev100(issues[i]) + SumSev100(issues, i + 1)

\* C7: every cell's raw score is min(n/8, 1) * w.issueDensity + waterScore *
\* w.waterProximity + severityFactor * w.severityFactor + min(k/4, 1) *
\* w.recurrence, n the cell's issue count and k its number of distinct
\* categories: density saturates at 8 issues, recurrence at 4 categories.
C7_RawScoreFormula ==
    ~threw =>
        /\ Len(rawZones) = Len(cellMap)
        /\ \A c \in 1..Len(cellMap) :
             LET cell == cellMap[c]
                 n == Len(cell.issues)
                 k == Cardinality({cell.issues[i].category : i \in 1..n})
             IN  rawZones[c].score
                 = Rat(RefRawNum(n, k, rawZones[c].nearWater,
                                 SumSev100(cell.issues, 1)), 320000 * n)

\* C7 witness: a cell of more than 8 issues and more than 4 categories was
\* scored under weights that count density and recurrence.
C7_Witness ==
    /\ ~threw
    /\ weights.issueDensity > 0
    /\ weights.recurrence > 0
    /\ \E c \in 1..Len(cellMap) :
         /\ Len(cellMap[c].issues) > 8
         /\ Cardinality({cellMap[c].issues[i].category :
                            i \in 1..Len(cellMap[c].issues)}) > 4

\* Is point p within `meters` of some point of the segment a-b?
WithinOfSegment(p, a, b, meters) ==
    LET d2 == SegmentDist2(p, a, b)
    IN  d2.num * Sq(GridEdgeM) <= Sq(meters * GridUnits) * d2.den

WithinOfLine(p, line, meters) ==
    \E i \in 1..(Len(line) - 1) : WithinOfSegment(p, line[i], line[i + 1], meters)

WithinOfWaterways(p, meters) ==
    \E k \in 1..Len(waterwayData) :
        /\ waterwayData[k].gtype \in {"LineString", "MultiLineString"}
        /\ \E j \in 1..Len(waterwayData[k].lines) :
             WithinOfLine(p, waterwayData[k].lines[j], meters)

\* C8: a cell is near water exactly when its centre is within 150 m of some
\* point of some segment of a waterway line or multi-line part.
C8_NearWaterBySegmentDistance ==
    \A c \in 1..Len(rawZones) :
        rawZones[c].nearWater
            <=> WithinOfWaterways(<<rawZones[c].lat, rawZones[c].lng>>, 150)

\* The class of a normalized score num/den by the strict thresholds.
RefLabel(s) ==
    IF 10 * s.num > 7 * s.den THEN "Critical Priority"
    ELSE IF 10 * s.num > 4 * s.den THEN "High Priority"
    ELSE IF 10 * s.num > 2 * s.den THEN "Moderate Priority"
    ELSE "Low Priority"

\* C9: every returned zone carries the class of its normalized score s:
\* Critical if s > 0.7, else High if s > 0.4, else Moderate if s > 0.2, else
\* Low; a score equal to a threshold is in the lower class.
C9_LabelByStrictThresholds ==
    \A i \in 1..Len(zones) :
        zones[i].score.den > 0 /\ zones[i].label = RefLabel(zones[i].score)

\* C9 witness: a zone scored exactly 0.7 was returned and is High, not Critical.
C9_Witness ==
    \E i \in 1..Len(zones) :
        /\ zones[i].score = [num |-> 7, den |-> 10]
        /\ zones[i].label = "High Priority"

\* C10: the returned list holds exactly the cells whose normalized score is
\* above 0.1: none at or below 0.1 is returned and none above 0.1 is missing.
C10_VisibleExactlyAboveTenth ==
    ~threw =>
        /\ \A i \in 1..Len(zones) : 10 * zones[i].score.num > zones[i].score.den
        /\ \A c \in 1..Len(normalized) :
             (10 * normalized[c].score.num > normalized[c].score.den)
                <=> \E i \in 1..Len(zones) : zones[i] = normalized[c]
        /\ Len(zones)
             = Cardinality({c \in 1..Len(normalized) :
                   10 * normalized[c].score.num > normalized[c].score.den})

\* C10 witness: of two scored cells one, with a positive normalized score of
\* at most 0.1, was dropped and the other returned.
C10_Witness ==
    /\ Len(normalized) = 2
    /\ Len(zones) = 1
    /\ \E c \in 1..2 : /\ normalized[c].score.num > 0
                       /\ 10 * normalized[c].score.num <= normalized[c].score.den

\* The index in the issue list of the first Point issue that falls in the
\* cell of zone z.
FirstIssueOf(z) ==
    LET inCell == {i \in 1..Len(issueData) :
                     /\ issueData[i].gtype = "Point"
                     /\ RoundToCell(issueData[i].lat) * GridUnits = z.lat
                     /\ RoundToCell(issueData[i].lng) * GridUnits = z.lng}
    IN  CHOOSE i \in inCell : \A j \in inCell : i <= j

SameScore(a, b) == RatLeq(a.score, b.score) /\ RatLeq(b.score, a.score)

\* C11: the returned zones are in non-increasing order of score, and zones of
\* equal score keep the order in which their cells first appeared in the
\* issue list.
C11_SortedDescendingStable ==
    \A i \in 1..Len(zones) : \A j \in 1..Len(zones) :
        i < j =>
            /\ RatLeq(zones[j].score, zones[i].score)
            /\ SameScore(zones[i], zones[j]) =>
                   FirstIssueOf(zones[i]) < FirstIssueOf(zones[j])

\* Two zones tie, and the one listed first lies in the cell of the issue
\* that came first although its coordinates are the larger ones.
C11_Witness ==
    /\ Len(zones) = 2
    /\ SameScore(zones[1], zones[2])
    /\ zones[1].lat > zones[2].lat
    /\ FirstIssueOf(zones[1]) < FirstIssueOf(zones[2])

PointIssues == {i \in 1..Len(issueData) : issueData[i].gtype = "Point"}

\* The cells whose issue list holds an issue at the position of issue i.
CellsHolding(i) ==
    {c \in 1..Len(cellMap) :
        \E m \in 1..Len(cellMap[c].issues) :
            /\ cellMap[c].issues[m].lat = issueData[i].lat
            /\ cellMap[c].issues[m].lng = issueData[i].lng}

\* Issues i and j differ by less than one grid edge in latitude and in longitude.
WithinOneEdge(i, j) ==
    /\ Abs(issueData[i].lat - issueData[j].lat) < GridUnits
    /\ Abs(issueData[i].lng - issueData[j].lng) < GridUnits

\* x and y round to the same multiple k of the grid edge: both lie in
\* [k - 1/2, k + 1/2) edges.
SameMultiple(x, y) ==
    \E k \in -3..3 :
        /\ (2 * k - 1) * GridUnits <= 2 * x /\ 2 * x < (2 * k + 1) * GridUnits
        /\ (2 * k - 1) * GridUnits <= 2 * y /\ 2 * y < (2 * k + 1) * GridUnits

\* C12 as stated: two issues less than one grid edge apart in latitude and
\* in longitude are always grouped into the same cell.
C12_WithinOneEdgeSameCell ==
    \A i \in PointIssues : \A j \in PointIssues :
        (~threw /\ WithinOneEdge(i, j)) => CellsHolding(i) = CellsHolding(j)

\* C12, amended: every Point issue is in exactly one cell; two issues whose
\* latitudes and longitudes round to the same multiples of the grid edge are
\* in the same cell; and two issues less than one grid edge apart in both
\* axes are in the same cell or in neighbouring ones (centres at most one
\* edge apart in each axis).
C12_SameMultipleSameCell ==
    \A i \in PointIssues : \A j \in PointIssues :
        ~threw =>
            /\ Cardinality(CellsHolding(i)) = 1
            /\ ( /\ SameMultiple(issueData[i].lat, issueData[j].lat)
                 /\ SameMultiple(issueData[i].lng, issueData[j].lng) )
               => CellsHolding(i) = CellsHolding(j)
            /\ WithinOneEdge(i, j) =>
                   \A c \in CellsHolding(i) : \A e \in CellsHolding(j) :
                       /\ Abs(cellMap[c].lat - cellMap[e].lat) <= GridUnits
                       /\ Abs(cellMap[c].lng - cellMap[e].lng) <= GridUnits

\* Two issues a quarter of an edge or less apart on either side of a
\* half-edge boundary, in two cells; their longitudes share a multiple.
C12_Witness ==
    /\ Len(issueData) = 2 /\ PointIssues = {1, 2}
    /\ WithinOneEdge(1, 2)
    /\ Abs(issueData[1].lat - issueData[2].lat) = 1
    /\ SameMultiple(issueData[1].lng, issueData[2].lng)
    /\ Len(cellMap) = 2
    /\ CellsHolding(1) # CellsHolding(2)

\* The Point issues that carry an id: those the map can have an entry for.
LocatedIssues == {i \in PointIssues : issueData[i].id # 0}

\* A feature the scan passes over: no geometry, a geometry that is no line,
\* a multi-line with a part of fewer than two positions (the distance
\* computation fails), or a line of fewer than two positions (no distance).
Skipped(f) ==
    \/ f.gtype \notin {"LineString", "MultiLineString"}
    \/ \E j \in 1..Len(f.lines) : Len(f.lines[j]) < 2

\* The squared distances from issue i to every segment of every part of
\* waterway feature k, and the least of them.
SegmentDistances(i, k) ==
    LET f == waterwayData[k]
        p == <<issueData[i].lat, issueData[i].lng>>
    IN  UNION { { SegmentDist2(p, f.lines[j][v], f.lines[j][v + 1]) :
                    v \in 1..(Len(f.lines[j]) - 1) } : j \in 1..Len(f.lines) }
LeastDistance(i, k) ==
    CHOOSE d \in SegmentDistances(i, k) :
        \A e \in SegmentDistances(i, k) : RatLeq(d, e)

\* The first of the waterway features nearest to issue i.
NearestFeature(i) ==
    CHOOSE k \in 1..Len(waterwayData) :
        /\ \A m \in 1..Len(waterwayData) :
               RatLeq(LeastDistance(i, k), LeastDistance(i, m))
        /\ \A m \in 1..(k - 1) :
               RatLess(LeastDistance(i, k), LeastDistance(i, m))

DisplayName(f) == IF f.name = "" THEN "Unnamed waterway" ELSE f.name

\* C13: with waterways that are all lines or multi-lines of two positions or
\* more per part, the entry of every located issue holds the least distance
\* over every segment of every part of every feature, rounded to feet, and
\* the name of the first feature at that distance.
C13_NearestIsGlobalMinimum ==
    ( /\ Len(waterwayData) > 0
      /\ \A k \in 1..Len(waterwayData) : ~Skipped(waterwayData[k]) )
    => \A i \in LocatedIssues :
           /\ issueData[i].id \in DOMAIN nearestMap
           /\ nearestMap[issueData[i].id].distFt =
                  RoundFeet(LeastDistance(i, NearestFeature(i)))
           /\ nearestMap[issueData[i].id].name =
                  DisplayName(waterwayData[NearestFeature(i)])

\* Two features and two issues: for one issue the features tie and the entry
\* names the first; for the other the second feature, a multi-line, is
\* strictly nearer through its second part and the entry names it.
C13_Witness ==
    /\ Len(waterwayData) = 2
    /\ \A k \in 1..2 : ~Skipped(waterwayData[k])
    /\ waterwayData[2].gtype = "MultiLineString"
    /\ \E i \in LocatedIssues : \E j \in LocatedIssues :
           /\ LeastDistance(i, 1) = LeastDistance(i, 2)
           /\ nearestMap[issueData[i].id].name = DisplayName(waterwayData[1])
           /\ RatLess(LeastDistance(j, 2), LeastDistance(j, 1))
           /\ LeastDistance(j, 2) =
                  SegmentDist2(<<issueData[j].lat, issueData[j].lng>>,
                               waterwayData[2].lines[2][1],
                               waterwayData[2].lines[2][2])
           /\ nearestMap[issueData[j].id].name = waterwayData[2].name
           /\ nearestMap[issueData[j].id].distFt > 0

\* The waterway collection without the features the scan passes over.
RECURSIVE WithoutSkipped(_, _)
WithoutSkipped(ww, k) ==
    IF k > Len(ww) THEN <<>>
    ELSE IF Skipped(ww[k]) THEN WithoutSkipped(ww, k + 1)
    ELSE <<ww[k]>> \o WithoutSkipped(ww, k + 1)

\* C14: a waterway feature with no geometry, with a geometry that is no
\* line, or whose distance computation fails is passed over: the map is the
\* map computed for the collection with those features removed.
C14_SkippedAsIfRemoved ==
    nearestMap = nearestWaterwayMap(issueData, WithoutSkipped(waterwayData, 1))

\* A feature that is passed over lies nearer to an issue (through its centre)
\* than the feature after it, and the entry names the latter.
C14_Witness ==
    /\ Len(waterwayData) = 2
    /\ Skipped(waterwayData[1]) /\ ~Skipped(waterwayData[2])
    /\ waterwayData[1].gtype = "MultiLineString"
    /\ \E i \in LocatedIssues :
           /\ \E j \in 1..Len(waterwayData[1].lines) :
                  /\ Len(waterwayData[1].lines[j]) = 2
                  /\ SegmentDist2(<<issueData[i].lat, issueData[i].lng>>,
                                  waterwayData[1].lines[j][1],
                                  waterwayData[1].lines[j][2]) = Zero
           /\ nearestMap[issueData[i].id].name = waterwayData[2].name
           /\ nearestMap[issueData[i].id].distFt > 0

\* A waterway feature with degenerate geometry: none, or a part of fewer
\* than two positions.
Degenerate(f) ==
    f.gtype = "null" \/ \E j \in 1..Len(f.lines) : Len(f.lines[j]) < 2

RECURSIVE WithoutDegenerate(_, _)
WithoutDegenerate(ww, k) ==
    IF k > Len(ww) THEN <<>>
    ELSE IF Degenerate(ww[k]) THEN WithoutDegenerate(ww, k + 1)
    ELSE <<ww[k]>> \o WithoutDegenerate(ww, k + 1)

\* C15: zone scoring passes over a waterway feature with degenerate geometry
\* and never throws: the zones are those computed with the feature absent.
C15_DegenerateWaterwaySkipped ==
    /\ ~threw
    /\ zones = computePriorityZones(issueData, WithoutDegenerate(waterwayData, 1),
                                    weights).result

\* Waterway feature k yields a finite distance: it is a line or multi-line
\* with two positions or more in every part, so it has a segment.
YieldsDistance(k) ==
    /\ ~Skipped(waterwayData[k])
    /\ \E j \in 1..Len(waterwayData[k].lines) : Len(waterwayData[k].lines[j]) >= 2

\* C16: the map has an entry for an issue only if some waterway feature
\* yielded a finite distance for it (and then it has one for every Point
\* issue with an id); with no waterway, or with every feature passed over,
\* the map has no entry.
C16_EntryOnlyWithFiniteDistance ==
    /\ \A id \in DOMAIN nearestMap :
           /\ \E i \in LocatedIssues : issueData[i].id = id
           /\ \E k \in 1..Len(waterwayData) : YieldsDistance(k)
    /\ (\E k \in 1..Len(waterwayData) : YieldsDistance(k))
           => \A i \in LocatedIssues : issueData[i].id \in DOMAIN nearestMap
    /\ (\A k \in 1..Len(waterwayData) : Skipped(waterwayData[k]))
           => DOMAIN nearestMap = {}

\* Issues to locate, two waterway features both passed over, and an empty map.
C16_Witness ==
    /\ LocatedIssues # {}
    /\ Len(waterwayData) = 2
    /\ \A k \in 1..2 : Skipped(waterwayData[k])
    /\ waterwayData[1].gtype # waterwayData[2].gtype
    /\ "scan" \in executed
    /\ DOMAIN nearestMap = {}

WeightOutOfRange == \E k \in WeightKeys : weights[k] < 0 \/ weights[k] > 100

\* C17: a weight below 0 or above 1 is used as it is: with such a weight
\* every cell's raw score is still the weighted sum of its four factors with
\* the weights as given, and the batch maximum is the largest of 0 and the
\* raw scores.
C17_OutOfRangeWeightsUnclamped ==
    (WeightOutOfRange /\ ~threw) =>
        /\ \A c \in 1..Len(rawZones) :
             LET n == Len(cellMap[c].issues)
                 k == Cardinality({cellMap[c].issues[i].category : i \in 1..n})
             IN  rawZones[c].score
                 = Rat(RefRawNum(n, k, rawZones[c].nearWater,
                                 SumSev100(cellMap[c].issues, 1)), 320000 * n)
        /\ \A c \in 1..Len(rawZones) : RatLeq(rawZones[c].score, maxRawScore)
        /\ \/ maxRawScore = Zero
           \/ \E c \in 1..Len(rawZones) : rawZones[c].score = maxRawScore

\* The density weight is negative and the severity weight above 1; of two
\* cells the first has a raw score above 1, which the batch maximum follows,
\* and the second a raw score below the severity weight.
C17_Witness ==
    /\ ~threw
    /\ weights.issueDensity < 0
    /\ weights.severityFactor > 100
    /\ Len(rawZones) = 2
    /\ RatLess(One, rawZones[1].score)
    /\ RatLess(One, maxRawScore)
    /\ RatLess(rawZones[2].score, Weight(weights.severityFactor))

\* C18: a render in which only the weights changed does not run the grid
\* aggregation again (only the scoring).
C18_WeightChangeKeepsGrid ==
    [][ ( /\ weights' # weights
          /\ issueData' = issueData
          /\ waterwayData' = waterwayData )
        => "grid" \notin executed' ]_vars

\* C19: a render that leaves the issue collection and the waterway
\* collection as they were (a weight change, a highlight change) keeps the
\* nearest-waterway map and does not run the issues x waterways scan.
C19_MapKeptUnlessDataChange ==
    [][ (issueData' = issueData /\ waterwayData' = waterwayData)
        => (nearestMap' = nearestMap /\ "scan" \notin executed') ]_vars

\* After a weight change and a highlight change the last render ran no scan
\* and the map computed at mount, with its entries, is in place.
C19_Witness ==
    /\ dataSource = "local"
    /\ weights # DEFAULT_PRIORITY_WEIGHTS
    /\ highlightId # 0
    /\ "scan" \notin executed
    /\ Len(waterwayData) > 0
    /\ DOMAIN nearestMap # {}

\* C24: whatever the severity values of a cell's issues, the severity term of
\* its raw score is the mean of critical 1, high 0.75, medium 0.4, low 0.15
\* and 0.4 for any other or missing value: the raw score is a number and
\* equals the weighted sum taken with that mean.
C24_SeverityMeanWithDefault ==
    ~threw =>
        \A c \in 1..Len(rawZones) :
            /\ ~IsNaN(rawZones[c].score)
            /\ LET issues == cellMap[c].issues
                   n == Len(issues)
                   k == Cardinality({issues[i].category : i \in 1..n})
               IN  rawZones[c].score
                   = Rat(RefRawNum(n, k, rawZones[c].nearWater,
                                   SumSev100(issues, 1)), 320000 * n)

\* The Point issues whose position lies in the rounding interval of the
\* cell centred at (lat, lng): within half an edge below, less than half above.
IssuesAround(lat, lng) ==
    {i \in PointIssues :
        /\ 2 * lat - GridUnits <= 2 * issueData[i].lat
        /\ 2 * issueData[i].lat < 2 * lat + GridUnits
        /\ 2 * lng - GridUnits <= 2 * issueData[i].lng
        /\ 2 * issueData[i].lng < 2 * lng + GridUnits}

RECURSIVE SumIssueCount(_, _)
SumIssueCount(zs, i) ==
    IF i > Len(zs) THEN 0 ELSE zs[i].issueCount + SumIssueCount(zs, i + 1)

\* C25: the cells partition the Point issues: the cells have distinct
\* centres, each holds exactly the Point issues that round to its centre, and
\* at least one; every Point issue rounds to some cell's centre; every scored
\* zone counts the issues of its cell, at least one; and the counts of the
\* returned zones add up to no more than the number of Point issues.
C25_CellsPartitionPointIssues ==
    /\ \A c \in 1..Len(cellMap) : \A e \in 1..Len(cellMap) :
           (cellMap[c].lat = cellMap[e].lat /\ cellMap[c].lng = cellMap[e].lng)
               => c = e
    /\ \A c \in 1..Len(cellMap) :
           /\ Len(cellMap[c].issues) >= 1
           /\ Len(cellMap[c].issues)
                  = Cardinality(IssuesAround(cellMap[c].lat, cellMap[c].lng))
    /\ \A i \in PointIssues :
           \E c \in 1..Len(cellMap) :
               i \in IssuesAround(cellMap[c].lat, cellMap[c].lng)
    /\ ~threw =>
           /\ Len(rawZones) = Len(cellMap)
           /\ \A c \in 1..Len(rawZones) :
                  rawZones[c].issueCount = Len(cellMap[c].issues)
    /\ \A z \in 1..Len(zones) : zones[z].issueCount >= 1
    /\ SumIssueCount(zones, 1) <= Cardinality(PointIssues)

\* Four Point issues or more in two cells,
\* three or more of them in one; both zones are returned.
C25_Witness ==
    /\ Cardinality(PointIssues) >= 4
    /\ Len(cellMap) = 2
    /\ Len(cellMap[1].issues) >= 3
    /\ Len(zones) = 2
    /\ SumIssueCount(zones, 1) = Cardinality(PointIssues)

\* The colour that goes with a label: red, orange, yellow, green.
ColorOfLabel(label) ==
    CASE label = "Critical Priority" -> "#ef4444"
      [] label = "High Priority" -> "#f97316"
      [] label = "Moderate Priority" -> "#eab308"
      [] label = "Low Priority" -> "#22c55e"

\* C26: the label of every returned zone, computed from the raw score and
\* the batch maximum, is the class the returned normalized score falls in:
\* the zone is drawn in the colour of its label, and a zone labelled Low has
\* a score above 0.1 and at most 0.2.
C26_LabelAgreesWithScore ==
    \A i \in 1..Len(zones) :
        /\ scoreColor(zones[i].score) = ColorOfLabel(zones[i].label)
        /\ zones[i].label = "Low Priority" =>
               /\ 10 * zones[i].score.num > zones[i].score.den
               /\ 10 * zones[i].score.num <= 2 * zones[i].score.den

\* A returned zone labelled Low, under a batch maximum other than 1, next to
\* a zone of another label.
C26_Witness ==
    /\ maxRawScore # One
    /\ \E i \in 1..Len(zones) : \E j \in 1..Len(zones) :
           /\ zones[i].label = "Low Priority"
           /\ zones[j].label = "Critical Priority"
           /\ RatLess(zones[i].score, Tenths(2))

NonNegativeWeights == \A k \in WeightKeys : weights[k] >= 0

\* C29: with at least one Point issue and no negative weight, a positive
\* density, severity or recurrence weight gives a non-empty list; with the
\* water weight the only positive one the call returns a list that is empty
\* exactly when no cell is near a waterway.
C29_PositiveWeightGivesZones ==
    (NonNegativeWeights /\ PointIssues # {}) =>
        /\ ( \/ weights.issueDensity > 0
             \/ weights.severityFactor > 0
             \/ weights.recurrence > 0 )
           => (~threw /\ Len(zones) >= 1)
        /\ ( /\ weights.waterProximity > 0
             /\ weights.issueDensity = 0
             /\ weights.severityFactor = 0
             /\ weights.recurrence = 0 )
           => /\ ~threw
              /\ zones = <<>> <=>
                     \A c \in 1..Len(rawZones) : ~rawZones[c].nearWater

\* What order independence compares of a zone: everything, with the
\* categories as a set.
ZoneView(z) ==
    [lat |-> z.lat, lng |-> z.lng, score |-> z.score,
     issueCount |-> z.issueCount, criticalCount |-> z.criticalCount,
     nearWater |-> z.nearWater, label |-> z.label,
     categories |-> {z.categories[i] : i \in 1..Len(z.categories)}]
ZoneSet(r) == {ZoneView(r.result[i]) : i \in 1..Len(r.result)}

\* Two permutations that generate every other: the list reversed, and the
\* list with its first issue moved to the end.
Reversed(l) == [i \in 1..Len(l) |-> l[Len(l) + 1 - i]]
Rotated(l) == [i \in 1..Len(l) |-> l[(i % Len(l)) + 1]]

\* C30: order independence.  The call on the issue list reversed, and on the
\* list rotated by one, returns the same set of zones as the call on the list
\* itself: the same centres, normalized scores, counts, near-water flags,
\* labels and sets of categories.
C30_OrderIndependence ==
    \A l \in {Reversed(issueData), Rotated(issueData)} :
        ZoneSet(computePriorityZones64(l, waterwayData, weights)) = ZoneSet(run)

\* The factors the weights are scaled by, besides the one of Normalize.
ScaleFactors == {2, 3}

\* k * w, each product a double
Scaled(w, k) == [key \in WeightKeys |-> F64Mul(F64FromInt(k), w[key])]

\* C27: scale invariance.  The zones computed from the weights scaled by a
\* positive factor, and from the weights Normalize would set (each divided
\* by their total), are the zones computed from the weights themselves: the
\* same cells with the same normalized scores and labels in the same order.
C27_ScaleInvariance ==
    \A w \in {Normalized(weights)} \cup {Scaled(weights, k) : k \in ScaleFactors} :
        computePriorityZones64(issueData, waterwayData, w).result = zones

\* x <= 1 (no double of the model is negative)
InUnit(x) == ~F64Less(F64One, x)

\* 1 - 2^-51 <= t <= 1 + 2^-51
NearOne(t) ==
    /\ ~F64Less(t, F64Make(BigSub(BigShl(<<1>>, 51), <<1>>), -51))
    /\ ~F64Less(F64Make(BigAdd(BigShl(<<1>>, 51), <<1>>), -51), t)

AllZero(w) == \A k \in WeightKeys : w[k] = F64Zero

Decorated(q) ==
    /\ Len(q.issuesWithDistance) = Len(q.issues)
    /\ \A i \in 1..Len(q.issues) :
           /\ q.issuesWithDistance[i].id = q.issues[i].id
           /\ Len(q.issuesWithDistance[i].distance) = 1
           /\ q.issuesWithDistance[i].distance[1] =
                  haversineDistance(q.userLocation[1], q.userLocation[2],
                                    q.issues[i].latitude, q.issues[i].longitude)

NonDecreasing(list) ==
    \A i \in 1..(Len(list) - 1) :
        ~F64Less(list[i + 1].distance[1], list[i].distance[1])

IdsOf(list) == {list[i].id : i \in 1..Len(list)}

\* C22: with a location, every issue of the queue carries its distance from
\* it, and under sort mode proximity the displayed list holds the filtered
\* issues in non-decreasing order of that distance; without a location every
\* distance is null and sorting by proximity gives the filtered list as it is.
C22_ProximityOrder ==
    IF Len(workQueue.userLocation) # 0
    THEN /\ Decorated(workQueue)
         /\ workQueue.sortMode = "proximity" =>
                /\ NonDecreasing(workQueue.filteredAndSorted)
                /\ Len(workQueue.filteredAndSorted)
                       = Cardinality(IdsOf(workQueue.filteredAndSorted))
                /\ IdsOf(workQueue.filteredAndSorted)
                       = IdsOf(Filtered(workQueue.issuesWithDistance,
                                        workQueue.filters))
    ELSE /\ Len(workQueue.issuesWithDistance) = Len(workQueue.issues)
         /\ \A i \in 1..Len(workQueue.issues) :
                workQueue.issuesWithDistance[i].distance = <<>>
         /\ filteredAndSorted(workQueue.issuesWithDistance, "proximity",
                              workQueue.filters)
                = Filtered(workQueue.issuesWithDistance, workQueue.filters)

\* The queue is sorted by proximity, and the sort moved an issue: three or
\* more issues are shown, not all at one distance, in another order than
\* the filters left them.
C22_Witness ==
    /\ Len(workQueue.userLocation) # 0
    /\ workQueue.sortMode = "proximity"
    /\ Len(workQueue.filteredAndSorted) >= 3
    /\ workQueue.filteredAndSorted
           # Filtered(workQueue.issuesWithDistance, workQueue.filters)
    /\ F64Less(workQueue.filteredAndSorted[1].distance[1],
               workQueue.filteredAndSorted[3].distance[1])

\* One mile in metres: 1609.344
MetersPerMile == F64Lit(1609344, 1000)

\* C23: the distance of the queue, in miles, is in metres the distance the
\* scoring pipeline computes for the same two points.
C23_SameDistance ==
    \A i \in 1..Len(workQueue.issuesWithDistance) :
        Len(workQueue.userLocation) # 0 =>
            F64Mul(workQueue.issuesWithDistance[i].distance[1], MetersPerMile)
                = distanceMeters64(workQueue.userLocation[1],
                                   workQueue.userLocation[2],
                                   workQueue.issues[i].latitude,
                                   workQueue.issues[i].longitude)

====
